---------------------------- MODULE Spec2Model ----------------------------
(***************************************************************************)
(* TemperatureStabilizer of Yepthatsit/PressureMesurments.                 *)
(*                                                                         *)
(* The three cycle-history variants of the class are modelled side by      *)
(* side; `variant' selects the file whose code runs:                       *)
(*   "atomic"  src/Stabilization/Stabilisation_atomic_json.py              *)
(*   "v2"      src/Stabilization/Stabilisation_atomic_jsonv2.py            *)
(*   "history" src/Stabilization/Stabilisation_history_json.py             *)
(* The methods _measure_temperature, _update_json, set_setpoint and        *)
(* check_stabilisation of "atomic" and "v2" are the same text; the two     *)
(* differ in _write_json_atomic (delete=False or the default delete=True   *)
(* of NamedTemporaryFile) and in the constructor's arguments.              *)
(*                                                                         *)
(* Temperatures are integers; numpy.polyfit is the exact least-squares     *)
(* line, kept as numerators over a common denominator, so comparisons      *)
(* against the tolerances are exact integer comparisons.                   *)
(***************************************************************************)
EXTENDS Integers, Sequences, FiniteSets, TLC

(***************************************************************************)
(* Bounds of the model.                                                    *)
(***************************************************************************)
\* largest `points' argument of a sweep
MaxPoints == 3
\* largest start or end temperature of a sweep [K]
MaxSweepTemp == 2
\* longest sample sequence handed to the regression on its own
MaxFitLen == 5
\* largest temperature in such a sequence
MaxFitVal == 4
\* longest cycle of arbitrary (finite or non-finite) readings fitted
MaxAnyLen == 3
\* lines in the data file beyond which no further method is called
MaxLines == 3
\* largest max_cycles passed to the constructor
MaxCyclesArg == 2
\* cap on len(cycles_history): no new cycle is started beyond it
MaxHist == 2
\* I/O faults (disk full, permission denied) a faulty environment injects
MaxFaults == 1
\* cap on len(self.measurements) of the legacy class: no further read beyond it
MaxMeasurements == 4

\* temperatures a reading or a setpoint takes [K]
Temps == {0, 1}
\* values of tolerance_A and tolerance_B
Tols == {0, 1}
\* values of stabilization_points / nb_points_stabilisation
PointsChoices == {1, 2}

\* max_cycles: Optional[int] = None
None == -1

Variants == {"atomic", "v2", "history"}

(***************************************************************************)
(* What the device answers to "KRDG? B": a number, a non-finite number     *)
(* (float() parses "nan" and "inf"), a text float() rejects, or no answer  *)
(* (pyvisa raises VisaIOError).                                            *)
(***************************************************************************)
Num(v) == [kind |-> "num", val |-> v]
NonFinite == [kind |-> "nonfinite", val |-> 0]
NoReply == [kind |-> "none", val |-> 0]
Replies ==
    {Num(v) : v \in Temps}
        \cup {NonFinite,
              [kind |-> "VisaIOError", val |-> 0],
              [kind |-> "malformed", val |-> 0]}

\* Faulty variant: the Engine commands the setpoint itself
MeasureCommand_Setpoint == "SETP 1"

\* The query _measure_temperature sends: self.lakeshore.ask("KRDG? B")
MeasureCommand == "KRDG? B"

\* Neither sensor has been queried yet.
NoReading == [A |-> 0, B |-> 0]

VARIABLES
    variant,               \* which source file's class this object is
    tolerance_A,           \* self.tolerance_A
    tolerance_B,           \* self.tolerance_B
    nb_points,             \* self.nb_points
    max_cycles,            \* self.max_cycles (None: unset)
    sampling_time,         \* self.sampling_time [s]
    setpoint,              \* self.setpoint
    cycles_history,        \* self.cycles_history
    current_measurements,  \* self.current_measurements
    cycle_count,           \* local of check_stabilisation (the history variant
                           \* keeps no counter: there it numbers the cycles)
    idx,                   \* iterations of `for _ in range(self.nb_points)' done
    pc,                    \* position of the Engine's thread
    ret,                   \* the statement the last write of the file belongs to
    result,                \* how the last call ended: "none", "True", "False", "raise"
    cause,                 \* why it ended so
    file,                  \* the file at json_filepath
    tmp,                   \* the NamedTemporaryFile of the write in progress
    obs,                   \* what the polling reader found at its last read
    fault_budget,          \* I/O faults the environment may still inject
    reads,                 \* device queries issued by the last check_stabilisation
    saves,                 \* _update_json calls it made
    appended,              \* cycles it appended
    len0,                  \* len(cycles_history) when it was called
    last_reply,            \* the device's answer to its last query
                           \* (these five are reset once set_setpoint is called)
    arg,                   \* the setpoint last passed to __init__ or set_setpoint
    last_write,            \* how the last write of the file ended: "ok", "failed"
    handle,                \* the LakeShore331 handle given to the Engine: "open", "closed"
    dpc,                   \* position of PressureMeasurement.stabilization_measurement
    start_temp,            \* its arguments
    end_temp,
    points,
    sweep,                 \* its local `sweep', in units of 1/SweepDen K
    step,                  \* its loop variable `idx' (0 before the loop)
    plots,                 \* the two plotter subprocesses: "none", "running", "terminated"
    log,                   \* what the driver asked of the device, the Engine and
                           \* the data file, in order
    spc,                   \* position of the caller's `with PressureMeasurement(...)'
    lockin,                \* the SR860 handle: "open", "closed"
    closes,                \* close() calls made on each of the two handles
    data,                  \* the measurement data file at file_path
    sent,                  \* the requests the last check_stabilisation sent to the device
    target_temp,           \* argument of go_to_temperature, in units of 1/TempUnit K
    count,                 \* its local `count'
    krdg,                  \* what the Lakeshore's sensors A and B read at the last
                           \* query, in units of 1/TempUnit K
    measurements,          \* self.measurements of TemperatureStabilizerLegacy
    slopes_history,        \* its self.slopes_history
    intercepts_history     \* its self.intercepts_history

config == <<variant, tolerance_A, tolerance_B, nb_points, max_cycles, sampling_time>>
memory == <<setpoint, cycles_history, current_measurements>>
control == <<cycle_count, idx, pc, ret, result, cause>>
disk == <<file, tmp>>
ghost == <<reads, saves, appended, len0, last_reply, sent, arg, last_write>>
sweepvars == <<dpc, start_temp, end_temp, points, sweep, step, plots, log>>
scope == <<spc, lockin, closes>>
ramp == <<target_temp, count, krdg>>
legacy == <<measurements, slopes_history, intercepts_history>>
drv == <<handle, sweepvars, scope, data, ramp, legacy>>
vars == <<config, memory, control, disk, obs, fault_budget, ghost, drv>>

(***************************************************************************)
(* numpy.polyfit(x, arr, 1) with x = arange(len(arr)).                     *)
(***************************************************************************)
RECURSIVE SumY(_, _)
SumY(arr, n) == IF n = 0 THEN 0 ELSE SumY(arr, n - 1) + arr[n].val

RECURSIVE SumXY(_, _)
SumXY(arr, n) == IF n = 0 THEN 0 ELSE SumXY(arr, n - 1) + (n - 1) * arr[n].val

RECURSIVE SumX(_)
SumX(n) == IF n = 0 THEN 0 ELSE SumX(n - 1) + (n - 1)

RECURSIVE SumXX(_)
SumXX(n) == IF n = 0 THEN 0 ELSE SumXX(n - 1) + (n - 1) * (n - 1)

Abs(v) == IF v < 0 THEN -v ELSE v

IsFinite(m) == m.kind = "num"

\* arr[mask]: the finite entries, in order
FiniteOnly(arr) == SelectSeq(arr, IsFinite)

AllFinite(arr) == \A k \in 1..Len(arr) : IsFinite(arr[k])

\* Faulty variant: the two coefficients of polyfit are unpacked the wrong way round
LeastSquares_Swapped(arr) ==
    LET n == Len(arr)
    IN  [kind |-> "ok",
         A |-> SumY(arr, n) * SumXX(n) - SumX(n) * SumXY(arr, n),
         B |-> n * SumXY(arr, n) - SumX(n) * SumY(arr, n),
         den |-> n * SumXX(n) - SumX(n) * SumX(n)]

\* The least-squares line through (0, arr[1]), ..., (n-1, arr[n]), n >= 2:
\* slope A/den, intercept B/den.
LeastSquares(arr) ==
    LET n == Len(arr)
    IN  [kind |-> "ok",
         A |-> n * SumXY(arr, n) - SumX(n) * SumY(arr, n),
         B |-> SumY(arr, n) * SumXX(n) - SumX(n) * SumXY(arr, n),
         den |-> n * SumXX(n) - SumX(n) * SumX(n)]

FitRaises(exc) == [kind |-> exc, A |-> 0, B |-> 0, den |-> 1]
FitNaN == [kind |-> "nan", A |-> 0, B |-> 0, den |-> 1]

\* What polyfit can do with arr.  An empty vector is a TypeError.  A single
\* point, or a non-finite value among the points, reaches LAPACK's lstsq with
\* a NaN in the matrix: depending on the build it raises LinAlgError or
\* returns NaN coefficients.
polyfit(arr) ==
    IF Len(arr) = 0 THEN {FitRaises("TypeError")}
    ELSE IF Len(arr) = 1 \/ ~AllFinite(arr) THEN {FitRaises("LinAlgError"), FitNaN}
    ELSE {LeastSquares(arr)}

\* _perform_regression: the atomic variants drop the non-finite values first
\* (arr = arr[mask]); the history variant fits current_measurements as it is.
_perform_regression(v, samples) ==
    IF v = "history" THEN polyfit(samples) ELSE polyfit(FiniteOnly(samples))

\* Faulty variant: `or' in place of `and'
Stabilized_Or(fit, sp, tolA, tolB) ==
    /\ fit.kind = "ok"
    /\ \/ Abs(fit.A) <= tolA * fit.den
       \/ Abs(fit.B - sp * fit.den) <= tolB * fit.den

\* Faulty variant: the intercept is not compared
Stabilized_SlopeOnly(fit, sp, tolA, tolB) ==
    /\ fit.kind = "ok"
    /\ Abs(fit.A) <= tolA * fit.den

\* abs(A) <= self.tolerance_A and abs(B - self.setpoint) <= self.tolerance_B;
\* every comparison with a NaN is False.
Stabilized(fit, sp, tolA, tolB) ==
    /\ fit.kind = "ok"
    /\ Abs(fit.A) <= tolA * fit.den
    /\ Abs(fit.B - sp * fit.den) <= tolB * fit.den

(***************************************************************************)
(* The persisted file.                                                     *)
(***************************************************************************)
Missing == [kind |-> "missing", setpoint |-> 0, cycles_history |-> <<>>]
Empty == [kind |-> "empty", setpoint |-> 0, cycles_history |-> <<>>]
Partial == [kind |-> "partial", setpoint |-> 0, cycles_history |-> <<>>]

\* json.dump of {"tolerance_A", "tolerance_B", "setpoint", "cycles_history"},
\* written to the end (the tolerances never change and are left out).
Snapshot(sp, hist) == [kind |-> "complete", setpoint |-> sp, cycles_history |-> hist]


(***************************************************************************)
(* Initial state: the constructor's arguments are chosen, __init__ has     *)
(* stored them and set cycles_history = [], and is about to write the      *)
(* initial file.  The history variant's constructor takes no max_cycles.   *)
(***************************************************************************)
(***************************************************************************)
(* The measurement data file: its complete lines ("header", "record",      *)
(* "other" for a line of a file found on disk that is neither, "joined"    *)
(* for a record written onto the end of an unterminated line), whether     *)
(* its last line lacks the newline, and for the properties how the path    *)
(* started out (born) and how many header lines it held then (headers0).   *)
(***************************************************************************)
IsHeader(line) == line = "header"

DataFile(ls, open_tail, born) ==
    [lines |-> ls, open_tail |-> open_tail, born |-> born,
     headers0 |-> Len(SelectSeq(ls, IsHeader))]

\* No file at file_path.
NoData == DataFile(<<>>, FALSE, "missing")

\* Faulty variant: the header is written whether or not the file exists
NeedsHeader_Always(d) == TRUE

\* if not os.path.isfile(abs_path)
NeedsHeader(d) == d.born = "missing"

\* _ensure_file: with open(abs_path, "w") as f: f.write(self.HEADER + "\n")
\* when there is no file, nothing otherwise.
_ensure_file(d) ==
    IF NeedsHeader(d)
    THEN [d EXCEPT !.lines = <<"header">>, !.open_tail = FALSE, !.born = "created"]
    ELSE d

\* with open(out_file, "a") as f: f.write(record + "\n"): a new line, or the
\* rest of the last line when that one was left without its newline.
AppendRecord(d) ==
    IF d.open_tail
    THEN [d EXCEPT !.lines = [@ EXCEPT ![Len(@)] = "joined"], !.open_tail = FALSE]
    ELSE [d EXCEPT !.lines = Append(@, "record")]

\* No close() call made yet on either instrument.
NoCloses == [name \in {"Lakeshore", "Lock-in"} |-> 0]

Constructed ==
    /\ variant \in Variants
    /\ nb_points \in PointsChoices
    /\ max_cycles \in IF variant = "history" THEN {None} ELSE {None} \cup (1..MaxCyclesArg)
    /\ sampling_time = 1
    /\ setpoint \in Temps
    /\ cycles_history = <<>>
    /\ current_measurements = <<>>
    /\ cycle_count = 0
    /\ idx = 0
    /\ pc = "init"
    /\ ret = "none"
    /\ result = "none"
    /\ cause = "none"
    /\ file = Missing
    /\ tmp = Missing
    /\ obs = "missing"
    /\ reads = 0
    /\ saves = 0
    /\ appended = 0
    /\ len0 = 0
    /\ last_reply = NoReply
    /\ sent = {}
    /\ arg = setpoint
    /\ last_write = "none"
    /\ handle = "open"
    /\ dpc = "none"
    /\ start_temp = 0
    /\ end_temp = 0
    /\ points = 0
    /\ sweep = <<>>
    /\ step = 0
    /\ plots = "none"
    /\ log = <<>>
    /\ spc = "none"
    /\ lockin = "open"
    /\ closes = NoCloses
    /\ data = NoData
    /\ target_temp = 0
    /\ count = 0
    /\ krdg = NoReading
    /\ measurements = <<>>
    /\ slopes_history = <<>>
    /\ intercepts_history = <<>>

\* An environment whose file operations all succeed.
Init ==
    /\ Constructed
    /\ tolerance_A \in Tols
    /\ tolerance_B \in Tols
    /\ fault_budget = 0

\* An environment that makes up to MaxFaults file operations fail.
InitIO ==
    /\ Constructed
    /\ tolerance_A = 0
    /\ tolerance_B = 0
    /\ fault_budget = MaxFaults

(***************************************************************************)
(* Writing the file.  A write belongs to the statement `ret' names:        *)
(* "ctor" (__init__), "set_setpoint", "sample" (the _update_json after a   *)
(* new point) or "cycle" (the _update_json after a cycle is recorded).     *)
(***************************************************************************)
\* Faulty variant: _update_json and set_setpoint without their try/except
WriteErrorCaught_Never(v, r) == r = "ctor" /\ v = "history"

\* Whether the exception of a failed write is caught by the caller's
\* try/except Exception.  __init__ of the atomic variants calls
\* _write_json_atomic outside any try.
WriteErrorCaught(v, r) == ~(r = "ctor" /\ v # "history")

\* Faulty variant: no time.sleep between a sample's save and the next read
AfterWrite_NoSleep(r) ==
    CASE r = "sample" -> "measure"
      [] r = "cycle" -> "test"
      [] OTHER -> "idle"

\* Where the Engine continues after the write of statement r.
AfterWrite(r) ==
    CASE r = "sample" -> "sleep"
      [] r = "cycle" -> "test"
      [] OTHER -> "idle"

\* The write ends here without an exception.
WriteDone ==
    /\ pc' = AfterWrite(ret)
    /\ UNCHANGED <<ret, result, cause>>

\* The write raised: logged and skipped where it is caught, otherwise the
\* exception leaves __init__ and no object exists.
WriteRaised ==
    IF WriteErrorCaught(variant, ret)
    THEN WriteDone
    ELSE /\ pc' = IF ret = "ctor" THEN "ctor_raised" ELSE "idle"
         /\ ret' = ret
         /\ result' = "raise"
         /\ cause' = "OSError"

\* Faulty variant: _update_json dumps an empty cycles_history
Payload_EmptyHistory(r, sp, hist) == Snapshot(sp, <<>>)

\* Faulty variant: a per-sample save also dumps the cycle in progress
Payload_OpenCycle(r, sp, hist) ==
    CASE r \in {"ctor", "set_setpoint"} -> Snapshot(sp, <<>>)
      [] r = "sample" ->
             Snapshot(sp, Append(hist, [measurements |-> current_measurements,
                                        slope_A |-> <<"nan", 0, 1>>,
                                        intercept_B |-> <<"nan", 0, 1>>]))
      [] OTHER -> Snapshot(sp, hist)

\* The dictionary a write dumps: __init__ and set_setpoint build init_data
\* with a literal [], _update_json passes self.cycles_history.
Payload(r, sp, hist) ==
    IF r \in {"ctor", "set_setpoint"} THEN Snapshot(sp, <<>>) ELSE Snapshot(sp, hist)

\* The environment's answer to one file operation.
IOOutcomes == IF fault_budget > 0 THEN {"ok", "fail"} ELSE {"ok"}

CountFault(io) == fault_budget' = IF io = "fail" THEN fault_budget - 1 ELSE fault_budget

\* The temporary file after `with NamedTemporaryFile(...) as tmp: json.dump(...)':
\* v2 leaves delete at its default True, so closing the file removes it.
TempAfterWith(v, content) == IF v = "v2" THEN Missing ELSE content

\* First half of a write.  (A temporary file that a failed write of the
\* atomic variant leaves behind is never used again; `tmp' forgets it.)
\* history: open(self.json_filepath, "w") truncates the file in place.
\* atomic, v2: the payload goes to a NamedTemporaryFile in the same directory.
WriteOpen ==
    /\ pc = "write_open"
    /\ \E io \in IOOutcomes :
        /\ CountFault(io)
        /\ IF variant = "history"
           THEN /\ tmp' = tmp
                /\ IF io = "ok"
                   THEN /\ file' = Empty
                        /\ pc' = "write_commit"
                        /\ UNCHANGED <<ret, result, cause, last_write>>
                   ELSE /\ file' = file
                        /\ last_write' = "failed"
                        /\ WriteRaised
           ELSE /\ file' = file
                /\ IF io = "ok"
                   THEN /\ tmp' = TempAfterWith(variant, Payload(ret, setpoint, cycles_history))
                        /\ pc' = "write_commit"
                        /\ UNCHANGED <<ret, result, cause, last_write>>
                   ELSE /\ tmp' = Missing
                        /\ last_write' = "failed"
                        /\ WriteRaised
    /\ UNCHANGED <<config, drv, memory, cycle_count, idx, obs, reads, saves, appended,
                   len0, last_reply, sent, arg>>

\* Second half of a write.
\* history: json.dump(data, f) into the truncated file, then close.
\* atomic, v2: os.replace(temp_name, self.json_filepath): FileNotFoundError
\* when the temporary file is gone.
WriteCommit ==
    /\ pc = "write_commit"
    /\ \E io \in IOOutcomes :
        /\ CountFault(io)
        /\ IF variant = "history"
           THEN /\ tmp' = tmp
                /\ IF io = "ok"
                   THEN /\ file' = Payload(ret, setpoint, cycles_history)
                        /\ last_write' = "ok"
                        /\ WriteDone
                   ELSE /\ file' \in {Empty, Partial}
                        /\ last_write' = "failed"
                        /\ WriteRaised
           ELSE IF io = "ok" /\ tmp.kind # "missing"
                THEN /\ file' = tmp
                     /\ tmp' = Missing
                     /\ last_write' = "ok"
                     /\ WriteDone
                ELSE /\ file' = file
                     /\ tmp' = Missing
                     /\ last_write' = "failed"
                     /\ WriteRaised
    /\ UNCHANGED <<config, drv, memory, cycle_count, idx, obs, reads, saves, appended,
                   len0, last_reply, sent, arg>>

\* __init__: writes the initial structure {tolerances, setpoint, []}.
Construct ==
    /\ pc = "init"
    /\ pc' = "write_open"
    /\ ret' = "ctor"
    /\ UNCHANGED <<config, drv, memory, cycle_count, idx, result, cause, disk, obs,
                   fault_budget, ghost>>


(***************************************************************************)
(* set_setpoint(new_setpoint), called between two stabilisation runs.      *)
(***************************************************************************)
\* Faulty variant: the history is not cleared
ClearedHistory_Kept(hist) == hist

\* self.cycles_history.clear()
ClearedHistory(hist) == <<>>

\* Faulty variant: the new setpoint is not stored
AssignedSetpoint_Kept(old, new_setpoint) == old

\* self.setpoint = new_setpoint
AssignedSetpoint(old, new_setpoint) == new_setpoint

set_setpoint ==
    /\ pc = "idle"
    /\ \E new_setpoint \in Temps :
        /\ arg' = new_setpoint
        /\ setpoint' = AssignedSetpoint(setpoint, new_setpoint)
    /\ cycles_history' = ClearedHistory(cycles_history)
    /\ pc' = "write_open"
    /\ ret' = "set_setpoint"
    /\ result' = "none"
    /\ cause' = "none"
    /\ reads' = 0
    /\ saves' = 0
    /\ appended' = 0
    /\ len0' = 0
    /\ last_reply' = NoReply
    /\ sent' = {}
    /\ UNCHANGED <<config, drv, current_measurements, cycle_count, idx, disk, obs,
                   fault_budget, last_write>>

(***************************************************************************)
(* check_stabilisation(), statement by statement.                          *)
(***************************************************************************)
\* The call leaves check_stabilisation with value r ("True", "False") or
\* with an exception (r = "raise") for the reason c.
Return(r, c) ==
    /\ pc' = "idle"
    /\ result' = r
    /\ cause' = c

\* Faulty variant: the counter of the previous call is carried over
StartCount_Kept(old) == old

\* cycle_count = 0
StartCount(old) == 0

\* cycle_count = 0, then into `while True'.
check_stabilisation ==
    /\ pc = "idle"
    /\ cycle_count' = StartCount(cycle_count)
    /\ pc' = "loop"
    /\ result' = "none"
    /\ cause' = "none"
    /\ reads' = 0
    /\ saves' = 0
    /\ appended' = 0
    /\ len0' = Len(cycles_history)
    /\ last_reply' = NoReply
    /\ sent' = {}
    /\ UNCHANGED <<config, drv, memory, idx, ret, disk, obs, fault_budget, arg, last_write>>

\* Faulty variant: the budget is never tested
BudgetExceeded_Never(cycles, maxc) == FALSE

\* Faulty variant: `>=' in place of `>'
BudgetExceeded_OffByOne(cycles, maxc) == maxc # None /\ cycles >= maxc

\* self.max_cycles is not None and cycle_count > self.max_cycles
BudgetExceeded(cycles, maxc) == maxc # None /\ cycles > maxc

\* Head of the while loop: count the cycle, give up when the budget is
\* exceeded, otherwise start the cycle with an empty buffer.
\* Faulty variant: the buffer of the previous cycle is kept
NewBuffer_Kept(old) == old

\* self.current_measurements = []
NewBuffer(old) == <<>>

\* Faulty variant: one pass too many
MorePasses_OneMore(i, n) == i <= n

\* `for _ in range(n)': whether a pass follows i completed passes.
MorePasses(i, n) == i < n

LoopHead ==
    /\ pc = "loop"
    /\ cycle_count' = cycle_count + 1
    /\ IF BudgetExceeded(cycle_count + 1, max_cycles)
       THEN /\ Return("False", "budget")
            /\ UNCHANGED <<current_measurements, idx>>
       ELSE /\ Len(cycles_history) < MaxHist
            /\ current_measurements' = NewBuffer(current_measurements)
            /\ idx' = 0
            /\ pc' = IF MorePasses(0, nb_points) THEN "measure" ELSE "regress"
            /\ UNCHANGED <<result, cause>>
    /\ UNCHANGED <<config, drv, setpoint, cycles_history, ret, disk, obs, fault_budget, ghost>>

\* One pass of `for _ in range(self.nb_points)' up to the _update_json call:
\* temp = self._measure_temperature(); self.current_measurements.append(temp).
\* VisaIOError is caught and ends the call with False; the ValueError of
\* float(response) is not caught anywhere.
\* Faulty variant: no `except visa_errors.VisaIOError' around the pass
MeasureOutcome_VisaUncaught(reply) ==
    IF reply.kind \in {"VisaIOError", "malformed"} THEN "raise" ELSE "value"

\* Faulty variant: an answer float() rejects is taken for a communication error
MeasureOutcome_MalformedFalse(reply) ==
    IF reply.kind \in {"VisaIOError", "malformed"} THEN "False" ELSE "value"

\* How one pass of the loop body ends for a reply: "False" (return False),
\* "raise" (the exception leaves the call) or "value" (temp is a float).
MeasureOutcome(reply) ==
    CASE reply.kind = "VisaIOError" -> "False"
      [] reply.kind = "malformed" -> "raise"
      [] OTHER -> "value"

\* Faulty variant: the file is written at cycle boundaries only
SampleSaved_Skipped == FALSE

\* `self._update_json()' follows the append in the loop body.
SampleSaved == TRUE

Measure ==
    /\ pc = "measure"
    /\ \E reply \in Replies :
        /\ reads' = reads + 1
        /\ last_reply' = reply
        /\ sent' = sent \cup {MeasureCommand}
        /\ CASE MeasureOutcome(reply) = "False" ->
                   /\ Return("False", "VisaIOError")
                   /\ UNCHANGED <<current_measurements, ret, saves>>
             [] MeasureOutcome(reply) = "raise" ->
                   /\ Return("raise", IF reply.kind = "malformed" THEN "ValueError"
                                                                  ELSE reply.kind)
                   /\ UNCHANGED <<current_measurements, ret, saves>>
             [] OTHER ->
                   /\ current_measurements' = Append(current_measurements, reply)
                   /\ IF SampleSaved
                      THEN /\ saves' = saves + 1
                           /\ pc' = "write_open"
                           /\ ret' = "sample"
                      ELSE /\ saves' = saves
                           /\ pc' = "sleep"
                           /\ ret' = ret
                   /\ UNCHANGED <<result, cause>>
    /\ UNCHANGED <<config, drv, setpoint, cycles_history, cycle_count, idx, disk, obs,
                   fault_budget, appended, len0, arg, last_write>>

\* time.sleep(secs) raises ValueError for a negative argument.
SleepRaises(secs) == secs < 0

\* time.sleep(self.sampling_time) closing one pass of the for loop.
Sleep ==
    /\ pc = "sleep"
    /\ IF SleepRaises(sampling_time)
       THEN /\ Return("raise", "ValueError")
            /\ idx' = idx
       ELSE /\ idx' = idx + 1
            /\ pc' = IF MorePasses(idx + 1, nb_points) THEN "measure" ELSE "regress"
            /\ UNCHANGED <<result, cause>>
    /\ UNCHANGED <<config, drv, memory, cycle_count, ret, disk, obs, fault_budget, ghost>>

\* cycle = {"measurements": self.current_measurements.copy(), "slope_A": A,
\*          "intercept_B": B}
Cycle(samples, fit) ==
    [measurements |-> samples,
     slope_A |-> <<fit.kind, fit.A, fit.den>>,
     intercept_B |-> <<fit.kind, fit.B, fit.den>>]

\* The fit a recorded cycle holds.
FitOf(cycle) ==
    [kind |-> cycle.slope_A[1], A |-> cycle.slope_A[2],
     B |-> cycle.intercept_B[2], den |-> cycle.slope_A[3]]

\* A, B = self._perform_regression(); the cycle is appended to
\* cycles_history; then _update_json is called.  An exception of polyfit
\* leaves the call.
\* Faulty variant: the history is replaced by the new cycle
RecordCycle_Overwrite(hist, cycle) == <<cycle>>

\* self.cycles_history.append(cycle)
RecordCycle(hist, cycle) == Append(hist, cycle)

Regress ==
    /\ pc = "regress"
    /\ \E fit \in _perform_regression(variant, current_measurements) :
        IF fit.kind \in {"TypeError", "LinAlgError"}
        THEN /\ Return("raise", fit.kind)
             /\ UNCHANGED <<cycles_history, ret, saves, appended>>
        ELSE /\ cycles_history' = RecordCycle(cycles_history,
                                               Cycle(current_measurements, fit))
             /\ appended' = appended + 1
             /\ saves' = saves + 1
             /\ pc' = "write_open"
             /\ ret' = "cycle"
             /\ UNCHANGED <<result, cause>>
    /\ UNCHANGED <<config, drv, setpoint, current_measurements, cycle_count, idx, disk,
                   obs, fault_budget, reads, len0, last_reply, sent, arg, last_write>>

\* `if abs(A) <= ... and abs(B - self.setpoint) <= ...: return True'; A and B
\* are the values just stored in the last cycle of cycles_history.
Test ==
    /\ pc = "test"
    /\ IF Stabilized(FitOf(cycles_history[Len(cycles_history)]), setpoint,
                     tolerance_A, tolerance_B)
       THEN Return("True", "stable")
       ELSE /\ pc' = "retry_sleep"
            /\ UNCHANGED <<result, cause>>
    /\ UNCHANGED <<config, drv, memory, cycle_count, idx, ret, disk, obs, fault_budget, ghost>>

\* time.sleep(self.sampling_time) after a cycle that is not stable, then
\* back to the head of the while loop.
RetrySleep ==
    /\ pc = "retry_sleep"
    /\ IF SleepRaises(sampling_time)
       THEN Return("raise", "ValueError")
       ELSE /\ pc' = "loop"
            /\ UNCHANGED <<result, cause>>
    /\ UNCHANGED <<config, drv, memory, cycle_count, idx, ret, disk, obs, fault_budget, ghost>>

(***************************************************************************)
(* close(), also run by __exit__ when a `with' block is left, normally or  *)
(* by an exception of check_stabilisation.  The history variant has        *)
(* neither close nor __exit__.                                             *)
(***************************************************************************)
\* atomic: self.lakeshore.close() inside try/except Exception: pass.
\* v2: a debug message only.
HandleAfterClose(v, h) == IF v = "atomic" THEN "closed" ELSE h

close ==
    /\ pc = "idle"
    /\ variant # "history"
    /\ pc' = "closed"
    /\ handle' = HandleAfterClose(variant, handle)
    /\ result' = "none"
    /\ cause' = "none"
    /\ reads' = 0
    /\ saves' = 0
    /\ appended' = 0
    /\ len0' = 0
    /\ last_reply' = NoReply
    /\ sent' = {}
    /\ UNCHANGED <<ramp, legacy, config, memory, cycle_count, idx, ret, disk, obs,
                   fault_budget, arg, last_write, sweepvars, scope, data>>

(***************************************************************************)
(* The live dashboard polling json_filepath: one open-and-read.            *)
(***************************************************************************)
\* What json.load makes of the file: "complete" document, "torn" (empty or
\* cut short: JSONDecodeError), or "missing" (open fails).
Observe(f) == IF f.kind \in {"empty", "partial"} THEN "torn" ELSE f.kind

ReaderPoll ==
    /\ obs' = Observe(file)
    /\ UNCHANGED <<config, drv, memory, control, disk, fault_budget, ghost>>

Next ==
    \/ Construct
    \/ WriteOpen
    \/ WriteCommit
    \/ set_setpoint
    \/ check_stabilisation
    \/ LoopHead
    \/ Measure
    \/ Sleep
    \/ Regress
    \/ Test
    \/ RetrySleep
    \/ close
    \/ ReaderPoll

Spec == Init /\ [][Next]_vars

SpecIO == InitIO /\ [][Next]_vars

\* Every device query, file operation and sleep of the Engine completes;
\* nothing obliges the caller to call again or the reader to poll.
EngineStep ==
    \/ WriteOpen
    \/ WriteCommit
    \/ LoopHead
    \/ Measure
    \/ Sleep
    \/ Regress
    \/ Test
    \/ RetrySleep

SpecLive == Init /\ [][Next]_vars /\ WF_vars(EngineStep)

(***************************************************************************)
(* The live plotter of src/Ploting/JsonPlotter.py polling json_filepath:   *)
(* FuncAnimation calls __HandlePlots once per interval.                    *)
(***************************************************************************)
\* One call of JsonPlotter.__HandlePlots on the file f: open(self.FileName,
\* 'r'), json.load, then jsondata["cycles_history"][-1], whose measurements,
\* slope and intercept are drawn.  What the call ends with.
__HandlePlots(f) ==
    CASE f.kind = "missing" -> "FileNotFoundError"
      [] f.kind \in {"empty", "partial"} -> "JSONDecodeError"
      [] f.cycles_history = <<>> -> "IndexError"
      [] OTHER -> "ok"

\* The plotter's timer fires.
PlotterPoll ==
    /\ obs' = __HandlePlots(file)
    /\ UNCHANGED <<config, drv, memory, control, disk, fault_budget, ghost>>

NextPlot ==
    \/ Construct
    \/ WriteOpen
    \/ WriteCommit
    \/ set_setpoint
    \/ check_stabilisation
    \/ LoopHead
    \/ Measure
    \/ Sleep
    \/ Regress
    \/ Test
    \/ RetrySleep
    \/ PlotterPoll

SpecPlot == Init /\ [][NextPlot]_vars

(***************************************************************************)
(* The constructor called with any configuration.  __init__ stores         *)
(* config["slope_tolerance"], config["intercept_tolerance"],               *)
(* config["stabilization_points"], config["sampling_interval"] and         *)
(* max_cycles as they come.                                                *)
(***************************************************************************)
\* stabilization_points / nb_points_stabilisation a caller passes
ConfigPoints == {0, 1}
\* slope_tolerance and intercept_tolerance a caller passes
ConfigTols == {-1, 0}
\* sampling_interval a caller passes [s]
ConfigIntervals == {-1, 0, 1}
\* max_cycles a caller passes
ConfigCycles == {None, 0, 1}

InitConfig ==
    /\ variant \in Variants
    /\ tolerance_A \in ConfigTols
    /\ tolerance_B \in ConfigTols
    /\ nb_points \in ConfigPoints
    /\ max_cycles \in IF variant = "history" THEN {None} ELSE ConfigCycles
    /\ sampling_time \in ConfigIntervals
    /\ setpoint = 0
    /\ cycles_history = <<>>
    /\ current_measurements = <<>>
    /\ cycle_count = 0
    /\ idx = 0
    /\ pc = "init"
    /\ ret = "none"
    /\ result = "none"
    /\ cause = "none"
    /\ file = Missing
    /\ tmp = Missing
    /\ obs = "missing"
    /\ fault_budget = 0
    /\ reads = 0
    /\ saves = 0
    /\ appended = 0
    /\ len0 = 0
    /\ last_reply = NoReply
    /\ sent = {}
    /\ arg = setpoint
    /\ last_write = "none"
    /\ handle = "open"
    /\ dpc = "none"
    /\ start_temp = 0
    /\ end_temp = 0
    /\ points = 0
    /\ sweep = <<>>
    /\ step = 0
    /\ plots = "none"
    /\ log = <<>>
    /\ spc = "none"
    /\ lockin = "open"
    /\ closes = NoCloses
    /\ data = NoData
    /\ target_temp = 0
    /\ count = 0
    /\ krdg = NoReading
    /\ measurements = <<>>
    /\ slopes_history = <<>>
    /\ intercepts_history = <<>>

SpecConfig == InitConfig /\ [][Next]_vars

(***************************************************************************)
(* The regression on its own: check_stabilisation has collected a cycle    *)
(* of finite samples (first cycle of the first call) and is about to call  *)
(* _perform_regression.  _perform_regression of v2 is the text of the      *)
(* atomic variant.                                                         *)
(***************************************************************************)
FitInputs ==
    UNION {[1..n -> {Num(v) : v \in 0..MaxFitVal}] : n \in 2..MaxFitLen}

InitFit ==
    /\ variant \in {"atomic", "history"}
    /\ tolerance_A = 0
    /\ tolerance_B = 0
    /\ current_measurements \in FitInputs
    /\ nb_points = Len(current_measurements)
    /\ max_cycles = None
    /\ sampling_time = 1
    /\ setpoint = 0
    /\ cycles_history = <<>>
    /\ cycle_count = 1
    /\ idx = nb_points
    /\ pc = "regress"
    /\ ret = "sample"
    /\ result = "none"
    /\ cause = "none"
    /\ file = Snapshot(setpoint, <<>>)
    /\ tmp = Missing
    /\ obs = "missing"
    /\ fault_budget = 0
    /\ reads = nb_points
    /\ saves = nb_points
    /\ appended = 0
    /\ len0 = 0
    /\ last_reply = current_measurements[nb_points]
    /\ sent = {MeasureCommand}
    /\ arg = setpoint
    /\ last_write = "ok"
    /\ handle = "open"
    /\ dpc = "none"
    /\ start_temp = 0
    /\ end_temp = 0
    /\ points = 0
    /\ sweep = <<>>
    /\ step = 0
    /\ plots = "none"
    /\ log = <<>>
    /\ spc = "none"
    /\ lockin = "open"
    /\ closes = NoCloses
    /\ data = NoData
    /\ target_temp = 0
    /\ count = 0
    /\ krdg = NoReading
    /\ measurements = <<>>
    /\ slopes_history = <<>>
    /\ intercepts_history = <<>>

NextFit == Regress

SpecFit == InitFit /\ [][NextFit]_vars

(***************************************************************************)
(* The same point of check_stabilisation after a cycle of arbitrary        *)
(* readings: float() accepts "nan" and "inf", so the buffer may hold       *)
(* non-finite values.                                                      *)
(***************************************************************************)
AnyInputs ==
    UNION {[1..n -> {Num(v) : v \in Temps} \cup {NonFinite}] : n \in 2..MaxAnyLen}

InitFitAny ==
    /\ variant \in Variants
    /\ tolerance_A = 0
    /\ tolerance_B = 0
    /\ current_measurements \in AnyInputs
    /\ nb_points = Len(current_measurements)
    /\ max_cycles = None
    /\ sampling_time = 1
    /\ setpoint = 0
    /\ cycles_history = <<>>
    /\ cycle_count = 1
    /\ idx = nb_points
    /\ pc = "regress"
    /\ ret = "sample"
    /\ result = "none"
    /\ cause = "none"
    /\ file = IF variant = "v2" THEN Missing ELSE Snapshot(setpoint, <<>>)
    /\ tmp = Missing
    /\ obs = "missing"
    /\ fault_budget = 0
    /\ reads = nb_points
    /\ saves = nb_points
    /\ appended = 0
    /\ len0 = 0
    /\ last_reply = current_measurements[nb_points]
    /\ sent = {MeasureCommand}
    /\ arg = setpoint
    /\ last_write = IF variant = "v2" THEN "failed" ELSE "ok"
    /\ handle = "open"
    /\ dpc = "none"
    /\ start_temp = 0
    /\ end_temp = 0
    /\ points = 0
    /\ sweep = <<>>
    /\ step = 0
    /\ plots = "none"
    /\ log = <<>>
    /\ spc = "none"
    /\ lockin = "open"
    /\ closes = NoCloses
    /\ data = NoData
    /\ target_temp = 0
    /\ count = 0
    /\ krdg = NoReading
    /\ measurements = <<>>
    /\ slopes_history = <<>>
    /\ intercepts_history = <<>>

SpecFitAny == InitFitAny /\ [][NextFit]_vars


(***************************************************************************)
(* PressureMeasurement.stabilization_measurement(file_path, start_temp,    *)
(* end_temp, points), statement by statement.  It imports its Engine from  *)
(* Stabilisation_atomic_jsonv3 and constructs it with the keyword          *)
(* arguments of the v2 constructor; each call it makes to the Engine is    *)
(* one step here whose outcome is any outcome the v2 method has (a         *)
(* return value or an exception), and the cycles the Engine records are    *)
(* not followed.                                                           *)
(***************************************************************************)
\* np.linspace(start, end, n) yields start + i*(end - start)/(n - 1); the
\* sweep is kept as numerators over SweepDen.
SweepDen == IF points > 1 THEN points - 1 ELSE 1

\* list(np.linspace(start_temp, end_temp, points))
Forward(start, end, n) ==
    [i \in 1..n |-> start * (IF n > 1 THEN n - 1 ELSE 1) + (i - 1) * (end - start)]

\* forward[::-1]
Reversed(seq) == [i \in 1..Len(seq) |-> seq[Len(seq) + 1 - i]]

\* Faulty variant: the peak is kept in both halves
SweepOf_PeakTwice(start, end, n) ==
    Forward(start, end, n) \o Reversed(Forward(start, end, n))

\* sweep = forward + forward[::-1][1:]
SweepOf(start, end, n) ==
    Forward(start, end, n) \o SubSeq(Reversed(Forward(start, end, n)), 2, n)

\* One entry of the driver's log: a request `op' for the setpoint `temp'
\* made in iteration k of the loop, and how it ended.
Ev(op, temp, res, k) == [op |-> op, temp |-> temp, res |-> res, k |-> k]

engine == <<config, memory, control, disk, obs, fault_budget, ghost>>

InitSweep ==
    /\ variant = "v2"
    /\ tolerance_A = 0
    /\ tolerance_B = 0
    /\ nb_points = 2
    /\ max_cycles = None
    /\ sampling_time = 1
    /\ setpoint = 0
    /\ cycles_history = <<>>
    /\ current_measurements = <<>>
    /\ cycle_count = 0
    /\ idx = 0
    /\ pc = "init"
    /\ ret = "none"
    /\ result = "none"
    /\ cause = "none"
    /\ file = Missing
    /\ tmp = Missing
    /\ obs = "missing"
    /\ fault_budget = 0
    /\ reads = 0
    /\ saves = 0
    /\ appended = 0
    /\ len0 = 0
    /\ last_reply = NoReply
    /\ sent = {}
    /\ arg = 0
    /\ last_write = "none"
    /\ handle = "open"
    /\ dpc = "start"
    /\ start_temp \in 0..MaxSweepTemp
    /\ end_temp \in 0..MaxSweepTemp
    /\ points \in 0..MaxPoints
    /\ sweep = <<>>
    /\ step = 0
    /\ plots = "none"
    /\ log = <<>>
    /\ spc = "body"
    /\ lockin = "open"
    /\ closes = NoCloses
    /\ data = NoData
    /\ target_temp = 0
    /\ count = 0
    /\ krdg = NoReading
    /\ measurements = <<>>
    /\ slopes_history = <<>>
    /\ intercepts_history = <<>>

\* out_file = self._ensure_file(file_path); forward = ...; sweep = ...
BuildSweep ==
    /\ dpc = "start"
    /\ data' = _ensure_file(data)
    /\ sweep' = SweepOf(start_temp, end_temp, points)
    /\ dpc' = "construct"
    /\ UNCHANGED <<ramp, legacy, engine, scope, handle, start_temp, end_temp, points, step, plots, log>>

\* with TemperatureStabilizer(instrument=self.lakeshore, config=self.config,
\*     json_filepath=cfg_path, setpoint=start_temp, max_cycles=None) as stabilizer:
\* the constructor returns, or raises and the method is left.
EnterEngine ==
    /\ dpc = "construct"
    /\ \E out \in {"ok", "raise"} :
        IF out = "ok"
        THEN /\ pc' = "idle"
             /\ setpoint' = start_temp * SweepDen
             /\ arg' = start_temp * SweepDen
             /\ dpc' = "popen"
        ELSE /\ pc' = "ctor_raised"
             /\ dpc' = "raised"
             /\ UNCHANGED <<setpoint, arg>>
    /\ UNCHANGED <<ramp, legacy, scope, data, config, cycles_history, current_measurements, cycle_count, idx, ret,
                   result, cause, disk, obs, fault_budget, reads, saves, appended, len0,
                   last_reply, sent, last_write, handle, start_temp, end_temp, points, sweep,
                   step, plots, log>>

\* LivePlot = subprocess.Popen(...); JsonPlot = subprocess.Popen(...)
StartPlotters ==
    /\ dpc = "popen"
    /\ plots' = "running"
    /\ dpc' = "loop"
    /\ UNCHANGED <<ramp, legacy, engine, scope, data, handle, start_temp, end_temp, points, sweep, step, log>>

\* for idx, temp in enumerate(sweep, 1):
LoopNext ==
    /\ dpc = "loop"
    /\ IF step < Len(sweep)
       THEN /\ step' = step + 1
            /\ dpc' = "set_setpoint"
       ELSE /\ step' = step
            /\ dpc' = "terminate"
    /\ UNCHANGED <<ramp, legacy, engine, scope, data, handle, start_temp, end_temp, points, sweep, plots, log>>

\* stabilizer.set_setpoint(temp): it catches what its write raises.
CallSetSetpoint ==
    /\ dpc = "set_setpoint"
    /\ setpoint' = AssignedSetpoint(setpoint, sweep[step])
    /\ arg' = sweep[step]
    /\ cycles_history' = ClearedHistory(cycles_history)
    /\ log' = Append(log, Ev("set_setpoint", sweep[step], "ok", step))
    /\ dpc' = "command"
    /\ UNCHANGED <<ramp, legacy, scope, data, config, current_measurements, control, disk, obs, fault_budget, reads,
                   saves, appended, len0, last_reply, sent, last_write, handle, start_temp,
                   end_temp, points, sweep, step, plots>>

\* self.lakeshore.write(f"SETP 1,{temp}"): a VisaIOError leaves the loop and
\* the `with' block.
CommandDevice ==
    /\ dpc = "command"
    /\ \E out \in {"ok", "VisaIOError"} :
        /\ log' = Append(log, Ev("SETP", sweep[step], out, step))
        /\ dpc' = IF out = "ok" THEN "check" ELSE "unwind"
    /\ UNCHANGED <<ramp, legacy, engine, scope, data, handle, start_temp, end_temp, points, sweep, step, plots>>

\* Faulty variant: a failed stabilisation is tried again
AfterCheck_Retry(out) ==
    CASE out = "True" -> "record"
      [] out = "False" -> "check"
      [] OTHER -> "unwind"

\* if not stabilizer.check_stabilisation(): ...; break
AfterCheck(out) ==
    CASE out = "True" -> "record"
      [] out = "False" -> "terminate"
      [] OTHER -> "unwind"

\* stabilizer.check_stabilisation(), blocking until it returns or raises.
CallCheck ==
    /\ dpc = "check"
    /\ \E out \in {"True", "False", "raise"} :
        /\ result' = out
        /\ log' = Append(log, Ev("check", sweep[step], out, step))
        /\ dpc' = AfterCheck(out)
    /\ UNCHANGED <<ramp, legacy, scope, data, config, memory, cycle_count, idx, pc, ret, cause, disk, obs,
                   fault_budget, ghost, handle, start_temp, end_temp, points, sweep,
                   step, plots>>

\* record = self._get_measurement_record(idx); with open(out_file, "a") as f:
\* f.write(record + "\n").  A device query or the file may raise.
Record ==
    /\ dpc = "record"
    /\ \E out \in {"ok", "raise"} :
        IF out = "ok"
        THEN /\ data' = AppendRecord(data)
             /\ log' = Append(log, Ev("record", sweep[step], out, step))
             /\ dpc' = "loop"
        ELSE /\ data' = data
             /\ log' = log
             /\ dpc' = "unwind"
    /\ UNCHANGED <<ramp, legacy, engine, scope, handle, start_temp, end_temp, points, sweep, step, plots>>

\* LivePlot.terminate(); JsonPlot.terminate()
TerminatePlotters ==
    /\ dpc = "terminate"
    /\ plots' = "terminated"
    /\ dpc' = "exit"
    /\ UNCHANGED <<ramp, legacy, engine, scope, data, handle, start_temp, end_temp, points, sweep, step, log>>

\* The `with' block is left, normally or by an exception: __exit__ calls close().
ExitEngine ==
    /\ dpc \in {"exit", "unwind"}
    /\ pc' = "closed"
    /\ handle' = HandleAfterClose(variant, handle)
    /\ dpc' = IF dpc = "exit" THEN "done" ELSE "raised"
    /\ UNCHANGED <<ramp, legacy, scope, data, config, memory, cycle_count, idx, ret, result, cause, disk, obs,
                   fault_budget, ghost, start_temp, end_temp, points, sweep, step,
                   plots, log>>

NextSweep ==
    \/ BuildSweep
    \/ EnterEngine
    \/ StartPlotters
    \/ LoopNext
    \/ CallSetSetpoint
    \/ CommandDevice
    \/ CallCheck
    \/ Record
    \/ TerminatePlotters
    \/ ExitEngine

SpecSweep == InitSweep /\ [][NextSweep]_vars

(***************************************************************************)
(* The sweep driver together with its Engine: the loop body of             *)
(* stabilization_measurement with set_setpoint and check_stabilisation     *)
(* followed statement by statement (the text of the v2 methods).  The      *)
(* driver and the Engine are one thread: a call is a transfer of control,  *)
(* and the driver's next statement runs when the call has returned.  The   *)
(* two plotter subprocesses only read (JsonPlotter opens the file with     *)
(* mode 'r').                                                              *)
(***************************************************************************)
\* `points' arguments of the composed runs
SystemPoints == {1, 2}

InitSystem ==
    /\ InitSweep
    /\ start_temp \in Temps
    /\ end_temp \in Temps
    /\ points \in SystemPoints

\* Faulty variant: the driver goes on while the call is still running
CallReturned_NoWait(p, r) == TRUE

\* The Engine method the driver called has come back (returned or raised).
CallReturned(p, r) == p = "idle" /\ r # "none"

\* stabilizer.set_setpoint(temp): control enters the Engine, which assigns
\* the setpoint, clears the history and starts its write.
SysSetSetpoint ==
    /\ dpc = "set_setpoint"
    /\ pc = "idle"
    /\ setpoint' = AssignedSetpoint(setpoint, sweep[step])
    /\ arg' = sweep[step]
    /\ cycles_history' = ClearedHistory(cycles_history)
    /\ pc' = "write_open"
    /\ ret' = "set_setpoint"
    /\ result' = "none"
    /\ cause' = "none"
    /\ reads' = 0
    /\ saves' = 0
    /\ appended' = 0
    /\ len0' = 0
    /\ last_reply' = NoReply
    /\ sent' = {}
    /\ log' = Append(log, Ev("set_setpoint", sweep[step], "ok", step))
    /\ dpc' = "command"
    /\ UNCHANGED <<ramp, legacy, scope, data, config, current_measurements, cycle_count, idx, disk, obs,
                   fault_budget, last_write, handle, start_temp, end_temp, points,
                   sweep, step, plots>>

\* self.lakeshore.write(f"SETP 1,{temp}") once set_setpoint has returned.
SysCommandDevice ==
    /\ dpc = "command"
    /\ pc = "idle"
    /\ CommandDevice

\* stabilizer.check_stabilisation(): control enters the Engine.
SysCallCheck ==
    /\ dpc = "check"
    /\ result = "none"
    /\ check_stabilisation

\* `if not stabilizer.check_stabilisation(): break' on the value returned;
\* an exception of the call leaves the loop and the `with' block.
SysAfterCheck ==
    /\ dpc = "check"
    /\ CallReturned(pc, result)
    /\ log' = Append(log, Ev("check", sweep[step], result, step))
    /\ dpc' = AfterCheck(result)
    /\ UNCHANGED <<ramp, legacy, engine, scope, data, handle, start_temp, end_temp, points, sweep, step, plots>>

NextSystem ==
    \/ BuildSweep
    \/ EnterEngine
    \/ StartPlotters
    \/ LoopNext
    \/ SysSetSetpoint
    \/ SysCommandDevice
    \/ SysCallCheck
    \/ SysAfterCheck
    \/ Record
    \/ TerminatePlotters
    \/ ExitEngine
    \/ WriteOpen
    \/ WriteCommit
    \/ LoopHead
    \/ Measure
    \/ Sleep
    \/ Regress
    \/ Test
    \/ RetrySleep

SpecSystem == InitSystem /\ [][NextSystem]_vars

(***************************************************************************)
(* The caller's scope: `with PressureMeasurement(config) as pm:' around a  *)
(* call of stabilization_measurement.  Python runs __exit__ however the    *)
(* body ends: it returned (after a full sweep or after the break on a      *)
(* failed stabilisation) or an exception left it.                          *)
(***************************************************************************)
\* Faulty variant: no try/except around inst.close()
AfterClose_Uncaught(name, out) ==
    IF out = "raise" THEN "left"
    ELSE IF name = "Lakeshore" THEN "close_lockin" ELSE "left"

\* for name, inst in (("Lakeshore", ...), ("Lock-in", ...)): try: inst.close()
\* except Exception: warning.  Where __exit__ continues after the attempt.
AfterClose(name, out) == IF name = "Lakeshore" THEN "close_lockin" ELSE "left"

\* The body of the `with' block has ended; __exit__ is entered.
LeaveBody ==
    /\ spc = "body"
    /\ dpc \in {"done", "raised"}
    /\ spc' = "close_lakeshore"
    /\ UNCHANGED <<ramp, legacy, engine, handle, sweepvars, lockin, closes, data>>

\* First pass of the loop of __exit__: self.lakeshore.close().
CloseLakeshore ==
    /\ spc = "close_lakeshore"
    /\ \E out \in {"ok", "raise"} :
        /\ handle' = IF out = "ok" THEN "closed" ELSE handle
        /\ spc' = AfterClose("Lakeshore", out)
    /\ closes' = [closes EXCEPT !["Lakeshore"] = @ + 1]
    /\ UNCHANGED <<ramp, legacy, engine, sweepvars, lockin, data>>

\* Second pass: self.lockin.close().
CloseLockin ==
    /\ spc = "close_lockin"
    /\ \E out \in {"ok", "raise"} :
        /\ lockin' = IF out = "ok" THEN "closed" ELSE lockin
        /\ spc' = AfterClose("Lock-in", out)
    /\ closes' = [closes EXCEPT !["Lock-in"] = @ + 1]
    /\ UNCHANGED <<ramp, legacy, engine, sweepvars, handle, data>>

NextScope ==
    \/ NextSweep
    \/ LeaveBody
    \/ CloseLakeshore
    \/ CloseLockin

SpecScope == InitSweep /\ [][NextScope]_vars

(***************************************************************************)
(* Logging into the data file: any sequence of go_to_temperature and       *)
(* stabilization_measurement calls on one file_path, which may hold a      *)
(* file before the first call.                                             *)
(***************************************************************************)
\* Files found at file_path: empty, a header, a header and a record, a
\* foreign line, a foreign line and a header, a header without its newline.
StartingFiles ==
    {DataFile(<<>>, FALSE, "preexisting"),
     DataFile(<<"header">>, FALSE, "preexisting"),
     DataFile(<<"header", "record">>, FALSE, "preexisting"),
     DataFile(<<"other">>, FALSE, "preexisting"),
     DataFile(<<"other", "header">>, FALSE, "preexisting"),
     DataFile(<<"header">>, TRUE, "preexisting")}

\* A file is at file_path before the first method is called.
PlaceFile ==
    /\ dpc = "start"
    /\ data = NoData
    /\ data' \in StartingFiles
    /\ UNCHANGED <<ramp, legacy, engine, handle, sweepvars, scope>>

\* The caller calls go_to_temperature (first, or after a method has ended).
CallGoToTemperature ==
    /\ dpc \in {"start", "done", "raised"}
    /\ Len(data.lines) < MaxLines
    /\ dpc' = "go_start"
    /\ step' = 0
    /\ sweep' = <<>>
    /\ plots' = "none"
    /\ log' = <<>>
    /\ UNCHANGED <<ramp, legacy, engine, handle, scope, data, start_temp, end_temp, points>>

\* The caller calls stabilization_measurement once more.
CallSweepAgain ==
    /\ dpc \in {"done", "raised"}
    /\ Len(data.lines) < MaxLines
    /\ dpc' = "start"
    /\ step' = 0
    /\ sweep' = <<>>
    /\ plots' = "none"
    /\ log' = <<>>
    /\ UNCHANGED <<ramp, legacy, engine, handle, scope, data, start_temp, end_temp, points>>

\* go_to_temperature: out_file = self._ensure_file(file_path); count = 1
GoEnsureFile ==
    /\ dpc = "go_start"
    /\ data' = _ensure_file(data)
    /\ dpc' = "go_command"
    /\ UNCHANGED <<ramp, legacy, engine, handle, scope, start_temp, end_temp, points, sweep, step,
                   plots, log>>

\* self.lakeshore.write("RAMP ..."); self.lakeshore.write("SETP ...");
\* process = subprocess.Popen(...)
GoCommand ==
    /\ dpc = "go_command"
    /\ \E out \in {"ok", "raise"} :
        /\ dpc' = IF out = "ok" THEN "go_loop" ELSE "raised"
        /\ plots' = IF out = "ok" THEN "running" ELSE plots
    /\ UNCHANGED <<ramp, legacy, engine, handle, scope, data, start_temp, end_temp, points, sweep,
                   step, log>>

\* ctrl = float(self.lakeshore.ask("KRDG? B")); within control_tol: break and
\* process.terminate(); otherwise a record follows.
GoPoll ==
    /\ dpc = "go_loop"
    /\ \E out \in {"reached", "away", "raise"} :
        /\ dpc' = CASE out = "reached" -> "done"
                    [] out = "away" -> "go_record"
                    [] OTHER -> "raised"
        /\ plots' = IF out = "reached" THEN "terminated" ELSE plots
    /\ UNCHANGED <<ramp, legacy, engine, handle, scope, data, start_temp, end_temp, points, sweep,
                   step, log>>

\* record = self._get_measurement_record(count); with open(out_file, "a") as f:
\* f.write(record + "\n"); count += 1; time.sleep(interval).  (These steps
\* do not follow the local `count'.)
GoRecord ==
    /\ dpc = "go_record"
    /\ \E out \in {"ok", "raise"} :
        IF out = "ok"
        THEN /\ Len(data.lines) <= MaxLines
             /\ data' = AppendRecord(data)
             /\ dpc' = "go_loop"
        ELSE /\ data' = data
             /\ dpc' = "raised"
    /\ UNCHANGED <<ramp, legacy, engine, handle, scope, start_temp, end_temp, points, sweep, step,
                   plots, log>>

NextData ==
    \/ NextSweep
    \/ PlaceFile
    \/ CallGoToTemperature
    \/ CallSweepAgain
    \/ GoEnsureFile
    \/ GoCommand
    \/ GoPoll
    \/ GoRecord

SpecData == InitSweep /\ [][NextData]_vars

(***************************************************************************)
(* go_to_temperature(file_path, target_temp) with its default tolerances,  *)
(* statement by statement, against a device whose two sensors read any     *)
(* temperature at each query.  Temperatures are in half kelvins here, so   *)
(* that the default tolerances of 0.5 K are whole numbers.                 *)
(***************************************************************************)
\* sample_tol: float = 0.5 [half kelvins]
sample_tol == 1
\* control_tol: float = 0.5 [half kelvins]
control_tol == 1

\* temperatures the sensors read, and targets asked for [half kelvins]
RampTemps == 0..3
RampTargets == {1, 2}

\* abs(reading - target) <= tol
WithinTol(reading, target, tol) == Abs(reading - target) <= tol

\* ctrl = float(self.lakeshore.ask("KRDG? B"));
\* if abs(ctrl - target_temp) <= control_tol: break.  Sensor A is not queried
\* and sample_tol is not used.
RampReached(readings, target) == WithinTol(readings.B, target, control_tol)

\* The call: out_file = self._ensure_file(file_path); count = 1
go_to_temperature ==
    /\ dpc = "start"
    /\ target_temp' \in RampTargets
    /\ data' = _ensure_file(data)
    /\ count' = 1
    /\ dpc' = "ramp_command"
    /\ UNCHANGED <<engine, handle, scope, krdg, legacy, start_temp, end_temp, points,
                   sweep, step, plots, log>>

\* self.lakeshore.write(f"RAMP 1,1,{ramp_rate}"); self.lakeshore.write(
\* f"SETP 1,{target_temp}"); process = subprocess.Popen(...)
RampCommand ==
    /\ dpc = "ramp_command"
    /\ \E out \in {"ok", "VisaIOError"} :
        /\ log' = Append(log, Ev("SETP", target_temp, out, 0))
        /\ dpc' = IF out = "ok" THEN "ramp_poll" ELSE "raised"
        /\ plots' = IF out = "ok" THEN "running" ELSE plots
    /\ UNCHANGED <<engine, handle, scope, data, ramp, legacy, start_temp, end_temp,
                   points, sweep, step>>

\* Head of `while True': sensor B is queried and compared; the device is at
\* any temperature on either sensor by then.
RampPoll ==
    /\ dpc = "ramp_poll"
    /\ \E a \in RampTemps, b \in RampTemps, out \in {"value", "raise"} :
        /\ krdg' = [A |-> a, B |-> b]
        /\ dpc' = CASE out = "raise" -> "raised"
                    [] out = "value" /\ RampReached(krdg', target_temp) -> "ramp_terminate"
                    [] OTHER -> "ramp_record"
    /\ UNCHANGED <<engine, handle, scope, data, target_temp, count, legacy, start_temp,
                   end_temp, points, sweep, step, plots, log>>

\* record = self._get_measurement_record(count); with open(out_file, "a") as f:
\* f.write(record + "\n"); count += 1; time.sleep(interval)
RampRecord ==
    /\ dpc = "ramp_record"
    /\ \E out \in {"ok", "raise"} :
        IF out = "ok"
        THEN /\ Len(data.lines) < MaxLines
             /\ data' = AppendRecord(data)
             /\ log' = Append(log, Ev("record", target_temp, out, count))
             /\ count' = count + 1
             /\ dpc' = "ramp_poll"
        ELSE /\ dpc' = "raised"
             /\ UNCHANGED <<data, log, count>>
    /\ UNCHANGED <<engine, handle, scope, target_temp, krdg, legacy, start_temp,
                   end_temp, points, sweep, step, plots>>

\* After the break: process.terminate(); the method returns.
RampTerminate ==
    /\ dpc = "ramp_terminate"
    /\ plots' = "terminated"
    /\ dpc' = "done"
    /\ UNCHANGED <<engine, handle, scope, data, ramp, legacy, start_temp, end_temp,
                   points, sweep, step, log>>

NextRamp ==
    \/ go_to_temperature
    \/ RampCommand
    \/ RampPoll
    \/ RampRecord
    \/ RampTerminate

SpecRamp == InitSweep /\ [][NextRamp]_vars

(***************************************************************************)
(* TemperatureStabilizerLegacy of src/Stabilisation_simple_json.py: one    *)
(* cumulative list self.measurements, and one slope and one intercept per  *)
(* cycle in self.slopes_history and self.intercepts_history.  Its file is  *)
(* written in place and every failure of a write is caught; the writes     *)
(* are taken as succeeding here.  `appended' counts the cycles recorded    *)
(* since the constructor or the last set_setpoint, `reads' the queries of  *)
(* the last check_stabilisation.                                           *)
(***************************************************************************)
\* json.dump of the legacy payload (tolerances left out).
LegacySnapshot(sp, ms, slopes, intercepts) ==
    [kind |-> "complete", setpoint |-> sp, measurements |-> ms,
     slopes_history |-> slopes, intercepts_history |-> intercepts]

\* The constructor has run: empty lists, and the file written with them.
InitLegacy ==
    /\ variant = "legacy"
    /\ tolerance_A \in Tols
    /\ tolerance_B \in Tols
    /\ nb_points \in PointsChoices
    /\ max_cycles = None
    /\ sampling_time = 1
    /\ setpoint \in Temps
    /\ cycles_history = <<>>
    /\ current_measurements = <<>>
    /\ cycle_count = 0
    /\ idx = 0
    /\ pc = "idle"
    /\ ret = "ctor"
    /\ result = "none"
    /\ cause = "none"
    /\ file = LegacySnapshot(setpoint, <<>>, <<>>, <<>>)
    /\ tmp = Missing
    /\ obs = "missing"
    /\ fault_budget = 0
    /\ reads = 0
    /\ saves = 0
    /\ appended = 0
    /\ len0 = 0
    /\ last_reply = NoReply
    /\ sent = {}
    /\ arg = setpoint
    /\ last_write = "ok"
    /\ handle = "open"
    /\ dpc = "none"
    /\ start_temp = 0
    /\ end_temp = 0
    /\ points = 0
    /\ sweep = <<>>
    /\ step = 0
    /\ plots = "none"
    /\ log = <<>>
    /\ spc = "none"
    /\ lockin = "open"
    /\ closes = NoCloses
    /\ data = NoData
    /\ target_temp = 0
    /\ count = 0
    /\ krdg = NoReading
    /\ measurements = <<>>
    /\ slopes_history = <<>>
    /\ intercepts_history = <<>>

\* set_setpoint: self.setpoint = new_setpoint; self.slopes_history.clear();
\* self.intercepts_history.clear(); the file is rewritten with the
\* measurements and two empty histories.  No statement touches
\* self.measurements.
Legacy_set_setpoint ==
    /\ pc = "idle"
    /\ \E new_setpoint \in Temps :
        /\ arg' = new_setpoint
        /\ setpoint' = new_setpoint
    /\ slopes_history' = <<>>
    /\ intercepts_history' = <<>>
    /\ file' = LegacySnapshot(setpoint', measurements, <<>>, <<>>)
    /\ ret' = "set_setpoint"
    /\ result' = "none"
    /\ cause' = "none"
    /\ appended' = 0
    /\ reads' = 0
    /\ last_reply' = NoReply
    /\ UNCHANGED <<config, cycles_history, current_measurements, cycle_count, idx, pc,
                   tmp, obs, fault_budget, saves, len0, sent, last_write, handle,
                   sweepvars, scope, data, ramp, measurements>>

\* check_stabilisation is called: into `while True'.
Legacy_check_stabilisation ==
    /\ pc = "idle"
    /\ pc' = IF MorePasses(0, nb_points) THEN "measure" ELSE "regress"
    /\ idx' = 0
    /\ result' = "none"
    /\ cause' = "none"
    /\ reads' = 0
    /\ last_reply' = NoReply
    /\ UNCHANGED <<config, memory, cycle_count, ret, disk, obs, fault_budget, saves,
                   appended, len0, sent, arg, last_write, drv>>

\* One pass of the for loop: temp = self._measure_temperature();
\* self.measurements.append(temp); self._update_json().
Legacy_Measure ==
    /\ pc = "measure"
    /\ Len(measurements) < MaxMeasurements
    /\ \E reply \in Replies :
        /\ reads' = reads + 1
        /\ last_reply' = reply
        /\ CASE MeasureOutcome(reply) = "False" ->
                   /\ Return("False", "VisaIOError")
                   /\ UNCHANGED <<measurements, file, ret>>
             [] MeasureOutcome(reply) = "raise" ->
                   /\ Return("raise", "ValueError")
                   /\ UNCHANGED <<measurements, file, ret>>
             [] OTHER ->
                   /\ measurements' = Append(measurements, reply)
                   /\ file' = LegacySnapshot(setpoint, measurements', slopes_history,
                                             intercepts_history)
                   /\ ret' = "sample"
                   /\ pc' = "sleep"
                   /\ UNCHANGED <<result, cause>>
    /\ UNCHANGED <<config, memory, cycle_count, idx, tmp, obs, fault_budget, saves,
                   appended, len0, sent, arg, last_write, handle, sweepvars, scope, data,
                   ramp, slopes_history, intercepts_history>>

\* time.sleep(self.sampling_time) closing the pass.
Legacy_Sleep ==
    /\ pc = "sleep"
    /\ idx' = idx + 1
    /\ pc' = IF MorePasses(idx + 1, nb_points) THEN "measure" ELSE "regress"
    /\ UNCHANGED <<config, memory, cycle_count, ret, result, cause, disk, obs,
                   fault_budget, ghost, drv>>

\* Faulty variant: the fit takes the samples of the last cycle only
LegacyFitInput_LastCycle(ms, n) == SubSeq(ms, Len(ms) - n + 1, Len(ms))

\* _perform_regression: x = np.arange(len(self.measurements));
\* np.polyfit(x, self.measurements, 1): the whole list.
LegacyFitInput(ms, n) == ms

\* A, B = self._perform_regression(); self.slopes_history.append(A);
\* self.intercepts_history.append(B); self._update_json()
Legacy_Regress ==
    /\ pc = "regress"
    /\ \E fit \in polyfit(LegacyFitInput(measurements, nb_points)) :
        IF fit.kind \in {"TypeError", "LinAlgError"}
        THEN /\ Return("raise", fit.kind)
             /\ UNCHANGED <<slopes_history, intercepts_history, file, ret, appended>>
        ELSE /\ slopes_history' = Append(slopes_history, <<fit.kind, fit.A, fit.den>>)
             /\ intercepts_history' = Append(intercepts_history, <<fit.kind, fit.B, fit.den>>)
             /\ file' = LegacySnapshot(setpoint, measurements, slopes_history',
                                       intercepts_history')
             /\ appended' = appended + 1
             /\ ret' = "cycle"
             /\ pc' = "test"
             /\ UNCHANGED <<result, cause>>
    /\ UNCHANGED <<config, memory, cycle_count, idx, tmp, obs, fault_budget, reads, saves,
                   len0, last_reply, sent, arg, last_write, handle, sweepvars, scope,
                   data, ramp, measurements>>

\* The fit of the cycle just recorded.
LegacyLastFit ==
    [kind |-> slopes_history[Len(slopes_history)][1],
     A |-> slopes_history[Len(slopes_history)][2],
     B |-> intercepts_history[Len(intercepts_history)][2],
     den |-> slopes_history[Len(slopes_history)][3]]

\* if abs(A) <= self.tolerance_A and abs(B - self.setpoint) <= self.tolerance_B:
\* return True
Legacy_Test ==
    /\ pc = "test"
    /\ IF Stabilized(LegacyLastFit, setpoint, tolerance_A, tolerance_B)
       THEN Return("True", "stable")
       ELSE /\ pc' = "retry_sleep"
            /\ UNCHANGED <<result, cause>>
    /\ UNCHANGED <<config, memory, cycle_count, idx, ret, disk, obs, fault_budget, ghost,
                   drv>>

\* else: time.sleep(self.sampling_time); back to the head of `while True'.
Legacy_RetrySleep ==
    /\ pc = "retry_sleep"
    /\ pc' = IF MorePasses(0, nb_points) THEN "measure" ELSE "regress"
    /\ idx' = 0
    /\ UNCHANGED <<config, memory, cycle_count, ret, result, cause, disk, obs,
                   fault_budget, ghost, drv>>

NextLegacy ==
    \/ Legacy_set_setpoint
    \/ Legacy_check_stabilisation
    \/ Legacy_Measure
    \/ Legacy_Sleep
    \/ Legacy_Regress
    \/ Legacy_Test
    \/ Legacy_RetrySleep

SpecLegacy == InitLegacy /\ [][NextLegacy]_vars

(***************************************************************************)
(* Notions the properties below are stated with.                           *)
(***************************************************************************)
\* A file write is in progress.
Writing == pc \in {"write_open", "write_commit"}

\* Control is inside check_stabilisation.
InCall ==
    \/ pc \in {"loop", "measure", "sleep", "regress", "test", "retry_sleep"}
    \/ Writing /\ ret \in {"sample", "cycle"}

\* check_stabilisation has returned (or raised) and nothing was called since.
Returned == pc = "idle" /\ result # "none"

LastCycle == cycles_history[Len(cycles_history)]

\* |slope| <= tolerance_A for a recorded cycle (slope = slope_A[2] / slope_A[3])
SlopeWithin(c) ==
    /\ c.slope_A[1] = "ok"
    /\ c.slope_A[2] <= tolerance_A * c.slope_A[3]
    /\ -c.slope_A[2] <= tolerance_A * c.slope_A[3]

\* |intercept - setpoint| <= tolerance_B for a recorded cycle
InterceptWithin(c) ==
    /\ c.intercept_B[1] = "ok"
    /\ c.intercept_B[2] - setpoint * c.intercept_B[3] <= tolerance_B * c.intercept_B[3]
    /\ setpoint * c.intercept_B[3] - c.intercept_B[2] <= tolerance_B * c.intercept_B[3]

\* s is an initial segment of t
IsPrefix(s, t) == Len(s) <= Len(t) /\ \A k \in 1..Len(s) : s[k] = t[k]

(***************************************************************************)
(* C1.  A closed cycle ends the call with True exactly when both           *)
(* |slope| <= tolerance_A and |intercept - setpoint| <= tolerance_B hold   *)
(* for its fit: a call that returned True has a last cycle within both     *)
(* tolerances, and a call that goes on to retry has a last cycle that      *)
(* misses at least one of them.                                            *)
(***************************************************************************)
C1_TrueIffBothWithin ==
    /\ (pc = "idle" /\ result = "True") =>
           (SlopeWithin(LastCycle) /\ InterceptWithin(LastCycle))
    /\ pc = "retry_sleep" =>
           ~(SlopeWithin(LastCycle) /\ InterceptWithin(LastCycle))

\* A cycle whose slope is within tolerance_A but whose intercept is not has
\* been evaluated, and the call did not return True on it.
C1_Witness ==
    /\ pc = "retry_sleep"
    /\ SlopeWithin(LastCycle)
    /\ ~InterceptWithin(LastCycle)


(***************************************************************************)
(* C2.  A reader that opens and reads the file at any instant never finds  *)
(* an empty, truncated or partially written document.  (Stated for every   *)
(* variant; the open-for-write variant breaks it.)                         *)
(***************************************************************************)
C2_ReaderNeverSeesTornFile == obs # "torn"

(***************************************************************************)
(* C3.  A VisaIOError on the k-th read of a cycle ends the call at once    *)
(* with False: the failed read is the call's last device query, the        *)
(* partial buffer is left as it is (no fit on it), no cycle is appended    *)
(* for the interrupted cycle and no further cycle is started.              *)
(***************************************************************************)
C3_VisaErrorAbortsAtOnce ==
    last_reply.kind = "VisaIOError" =>
        /\ pc = "idle"
        /\ result = "False"
        /\ idx < nb_points
        /\ Len(current_measurements) = idx
        /\ reads = (cycle_count - 1) * nb_points + idx + 1
        /\ Len(cycles_history) = len0 + (cycle_count - 1)

\* The device failed on the second read of the second cycle of a call.
C3_Witness ==
    /\ last_reply.kind = "VisaIOError"
    /\ result = "False"
    /\ cycle_count = 2
    /\ idx = 1

(***************************************************************************)
(* C4.  With max_cycles = N set, a call never works on a cycle beyond the  *)
(* N-th; when its N cycles all miss the tolerances it returns False        *)
(* having collected exactly N cycles, appended exactly N entries and       *)
(* issued exactly N * nb_points device reads.                              *)
(***************************************************************************)
C4_BudgetEndsAfterNCycles ==
    /\ (max_cycles # None /\ InCall /\ pc # "loop") => cycle_count <= max_cycles
    /\ (max_cycles # None /\ (InCall \/ Returned)) =>
           (appended <= max_cycles /\ reads <= max_cycles * nb_points)
    /\ (pc = "idle" /\ cause = "budget") =>
           /\ result = "False"
           /\ max_cycles # None
           /\ appended = max_cycles
           /\ Len(cycles_history) = len0 + max_cycles
           /\ reads = max_cycles * nb_points
           /\ \A k \in (len0 + 1)..Len(cycles_history) :
                  ~(SlopeWithin(cycles_history[k]) /\ InterceptWithin(cycles_history[k]))

\* A call with max_cycles = 2 and two points per cycle gave up on its budget.
C4_Witness ==
    /\ pc = "idle"
    /\ cause = "budget"
    /\ max_cycles = 2
    /\ nb_points = 2
    /\ reads = 4


(***************************************************************************)
(* C5.  When set_setpoint(x) has returned, the setpoint in memory is x     *)
(* and cycles_history is empty; if its write succeeded, the file holds     *)
(* setpoint x and an empty cycles_history.                                 *)
(***************************************************************************)
AfterSetSetpoint == pc = "idle" /\ ret = "set_setpoint" /\ result = "none"

C5_SetSetpointResets ==
    AfterSetSetpoint =>
        /\ setpoint = arg
        /\ cycles_history = <<>>
        /\ last_write = "ok" => file = Snapshot(arg, <<>>)

\* set_setpoint returned, its write succeeded, and a full cycle had been
\* collected before it was called.
C5_Witness ==
    /\ AfterSetSetpoint
    /\ last_write = "ok"
    /\ file = Snapshot(arg, <<>>)
    /\ nb_points = 2
    /\ Len(current_measurements) = 2
    /\ AllFinite(current_measurements)

(***************************************************************************)
(* C6.  Every regression is fitted on exactly nb_points finite samples:    *)
(* a non-finite reading does not count towards nb_points.  (The code       *)
(* counts it and drops it only before the fit.)                            *)
(***************************************************************************)
C6_FitOnFullFiniteBatch ==
    pc = "regress" => Len(FiniteOnly(current_measurements)) = nb_points

(***************************************************************************)
(* C7.  If the first cycle of a call is within both tolerances, the call   *)
(* returns True after that one cycle: nb_points device reads, one entry    *)
(* appended, no retry.                                                     *)
(***************************************************************************)
C7_StableFirstCycleReturnsAtOnce ==
    (/\ InCall \/ Returned
     /\ appended >= 1
     /\ ~(appended = 1 /\ (Writing \/ pc = "test"))
     /\ Len(cycles_history) > len0
     /\ SlopeWithin(cycles_history[len0 + 1])
     /\ InterceptWithin(cycles_history[len0 + 1]))
        => /\ pc = "idle"
           /\ result = "True"
           /\ cycle_count = 1
           /\ appended = 1
           /\ Len(cycles_history) = len0 + 1
           /\ reads = nb_points

\* A call returned True after one cycle of two points.
C7_Witness ==
    /\ pc = "idle"
    /\ result = "True"
    /\ appended = 1
    /\ nb_points = 2
    /\ reads = 2

(***************************************************************************)
(* C8.  A cycle that misses the tolerances is in cycles_history when the   *)
(* retry begins, and the next cycle starts with an empty buffer: at the    *)
(* first read of cycle j+1 of a call the history holds the j cycles of     *)
(* the call after the ones it began with.                                  *)
(***************************************************************************)
C8_FailedCycleKeptThenFreshCycle ==
    /\ pc = "retry_sleep" =>
           /\ Len(cycles_history) = len0 + cycle_count
           /\ LastCycle.measurements = current_measurements
    /\ (pc = "measure" /\ idx = 0) =>
           /\ current_measurements = <<>>
           /\ Len(cycles_history) = len0 + (cycle_count - 1)

\* The second cycle of a call is about to read its first sample.
C8_Witness ==
    /\ pc = "measure"
    /\ idx = 0
    /\ cycle_count = 2
    /\ len0 = 0
    /\ Len(cycles_history) = 1
    /\ current_measurements = <<>>

(***************************************************************************)
(* C9.  A write of check_stabilisation or set_setpoint that fails changes  *)
(* nothing but the file: each step of such a write, failing or not,        *)
(* leaves setpoint, cycles_history, the buffer, the counters and the       *)
(* call's result as they are, raises nothing to the caller, and the        *)
(* Engine goes on at the statement after the write.                        *)
(***************************************************************************)
C9_SaveFailureChangesNothing ==
    [][(Writing /\ ret # "ctor") =>
           /\ setpoint' = setpoint
           /\ cycles_history' = cycles_history
           /\ current_measurements' = current_measurements
           /\ cycle_count' = cycle_count
           /\ idx' = idx
           /\ reads' = reads
           /\ result' = result
           /\ cause' = cause
           /\ pc' \in {pc, "write_commit", AfterWrite(ret)}]_vars

\* The write after a cycle was recorded failed, and the call returned True.
C9_Witness ==
    /\ pc = "idle"
    /\ result = "True"
    /\ ret = "cycle"
    /\ last_write = "failed"

(***************************************************************************)
(* C10.  cycles_history is append-only and its entries never change: in    *)
(* every step other than a call of set_setpoint the old history is an      *)
(* initial segment of the new one; set_setpoint empties it.                *)
(***************************************************************************)
C10_HistoryAppendOnly ==
    [][\/ IsPrefix(cycles_history, cycles_history')
       \/ /\ pc = "idle"
          /\ pc' = "write_open"
          /\ ret' = "set_setpoint"
          /\ cycles_history' = <<>>]_vars

\* A second call on the same setpoint has appended a cycle after the one
\* the first call left.
C10_Witness ==
    /\ len0 = 1
    /\ appended = 1
    /\ Len(cycles_history) = 2


(***************************************************************************)
(* C11.  A reply that float() cannot parse ends check_stabilisation like   *)
(* an unreachable device: the call returns False and no exception leaves   *)
(* it.  (The code catches VisaIOError only; the ValueError escapes.)       *)
(***************************************************************************)
C11_MalformedReplyReturnsFalse ==
    last_reply.kind = "malformed" => (pc = "idle" /\ result = "False")

(***************************************************************************)
(* C12.  In the v2 variant, with no I/O fault injected, the temporary      *)
(* file exists when os.replace runs, no write fails, the constructor       *)
(* returns, and after a write the file is the snapshot passed in.  (The    *)
(* code lets NamedTemporaryFile delete the file when the `with' ends.)     *)
(***************************************************************************)
C12_V2ReplaceFindsTempFile ==
    (variant = "v2" /\ fault_budget = 0) =>
        /\ pc = "write_commit" => tmp.kind = "complete"
        /\ last_write # "failed"
        /\ pc # "ctor_raised"
        /\ (last_write = "ok" /\ ~Writing) => file.kind = "complete"

(***************************************************************************)
(* C13.  The file is written after every accepted sample and once more     *)
(* after every recorded cycle: when a device read is about to be issued    *)
(* every earlier read of the call has been appended and saved, and a call  *)
(* that ends after c full cycles of n samples made c*(n+1) save calls.     *)
(***************************************************************************)
C13_SaveAfterEverySample ==
    /\ pc = "measure" =>
           /\ Len(current_measurements) = idx
           /\ reads = (cycle_count - 1) * nb_points + idx
           /\ saves = reads + appended
    /\ (Writing /\ ret = "sample") =>
           /\ Len(current_measurements) = idx + 1
           /\ saves = reads + appended
    /\ (Returned /\ cause \in {"stable", "budget"}) =>
           /\ reads = appended * nb_points
           /\ saves = appended * (nb_points + 1)

\* A call ended after two cycles of two samples and six saves.
C13_Witness ==
    /\ Returned
    /\ cause \in {"stable", "budget"}
    /\ nb_points = 2
    /\ appended = 2
    /\ saves = 6


(***************************************************************************)
(* C16.  The fit is the ordinary least-squares line of the samples         *)
(* against their index 0..n-1.  With slope = a/d and intercept = b/d as    *)
(* recorded: d = n*sum(i^2) - sum(i)^2, a = n*sum(i*y) - sum(i)*sum(y),    *)
(* intercept = mean(y) - slope*mean(i), the residuals y_i - slope*i -      *)
(* intercept sum to zero, plainly and weighted by i (the normal            *)
(* equations); [0,1,2,3,4] gives slope 1 and intercept 0, a constant       *)
(* sequence slope 0 and the constant.                                      *)
(***************************************************************************)
\* Sum over the samples of w(i) * (d*y_i - a*i - b), i the index from 0,
\* w(i) = i if byIndex and 1 otherwise.
RECURSIVE ResidualSum(_, _, _, _, _, _)
ResidualSum(y, a, b, d, n, byIndex) ==
    IF n = 0 THEN 0
    ELSE ResidualSum(y, a, b, d, n - 1, byIndex)
             + (IF byIndex THEN n - 1 ELSE 1) * (d * y[n].val - a * (n - 1) - b)

C16_FitIsLeastSquares ==
    (pc = "write_open" /\ ret = "cycle" /\ cycles_history # <<>>
        /\ AllFinite(LastCycle.measurements) /\ Len(LastCycle.measurements) >= 2) =>
        LET y == LastCycle.measurements
            n == Len(y)
            a == LastCycle.slope_A[2]
            b == LastCycle.intercept_B[2]
            d == LastCycle.slope_A[3]
        IN  /\ LastCycle.slope_A[1] = "ok"
            /\ LastCycle.intercept_B[1] = "ok"
            /\ LastCycle.intercept_B[3] = d
            /\ d = n * SumXX(n) - SumX(n) * SumX(n)
            /\ d > 0
            /\ a = n * SumXY(y, n) - SumX(n) * SumY(y, n)
            /\ n * b = SumY(y, n) * d - a * SumX(n)
            /\ ResidualSum(y, a, b, d, n, FALSE) = 0
            /\ ResidualSum(y, a, b, d, n, TRUE) = 0
            /\ y = <<Num(0), Num(1), Num(2), Num(3), Num(4)>> => (a = d /\ b = 0)
            /\ (\A k \in 1..n : y[k] = y[1]) => (a = 0 /\ b = y[1].val * d)

\* The fit of [0, 1, 2, 3, 4] has been recorded: slope 1, intercept 0.
C16_Witness ==
    /\ pc = "write_open"
    /\ ret = "cycle"
    /\ cycles_history # <<>>
    /\ LastCycle.measurements = <<Num(0), Num(1), Num(2), Num(3), Num(4)>>
    /\ LastCycle.slope_A[2] = LastCycle.slope_A[3]
    /\ LastCycle.intercept_B[2] = 0


(***************************************************************************)
(* C17.  Every call of check_stabilisation starts afresh, whatever the     *)
(* calls before it did: set_setpoint leaves the setpoint given and an      *)
(* empty history, the cycle counter starts at 0 and counts the cycles of   *)
(* this call only, the history grows by this call's cycles only, every     *)
(* cycle starts with an empty buffer and is fitted on the nb_points        *)
(* samples read in it, and a call that ends on the budget has used all     *)
(* of max_cycles.                                                          *)
(***************************************************************************)
ClosingCycle == pc \in {"test", "retry_sleep"} \/ (Writing /\ ret = "cycle")

C17_EngineReusable ==
    /\ AfterSetSetpoint => (setpoint = arg /\ cycles_history = <<>> /\ len0 = 0)
    /\ (pc = "loop" /\ reads = 0 /\ appended = 0) => cycle_count = 0
    /\ (InCall /\ pc # "loop") =>
           cycle_count = appended + (IF ClosingCycle THEN 0 ELSE 1)
    /\ (InCall \/ Returned) => Len(cycles_history) = len0 + appended
    /\ (pc = "measure" /\ idx = 0) => current_measurements = <<>>
    /\ pc = "regress" =>
           /\ Len(current_measurements) = nb_points
           /\ reads = cycle_count * nb_points
    /\ (Returned /\ cause = "budget") => appended = max_cycles

\* A call has just been entered after set_setpoint, while the buffer still
\* holds the one sample of a cycle that an earlier call did not finish.
C17_Witness ==
    /\ pc = "loop"
    /\ cycle_count = 0
    /\ reads = 0
    /\ ret = "set_setpoint"
    /\ cycles_history = <<>>
    /\ nb_points = 2
    /\ Len(current_measurements) = 1

C19_FailedSaveKeepsLastSnapshot ==
    (last_write = "failed" /\ ~Writing) => file.kind \in {"missing", "complete"}

(***************************************************************************)
(* C20.  The device handle given to the Engine is still open after the     *)
(* Engine was closed.  (close() of the atomic variant closes it.)          *)
(***************************************************************************)
C20_CloseLeavesHandleOpen ==
    pc = "closed" => handle = "open"


(***************************************************************************)
(* C14.  The sweep driver calls check_stabilisation exactly once per       *)
(* setpoint it reaches, in the order of the sweep.  A call that returned   *)
(* True is followed by the one record of its setpoint; after a call that   *)
(* returned False nothing more is asked of the device, the Engine or the   *)
(* data file, and the driver goes straight to the end of the method.       *)
(***************************************************************************)
IsCheck(e) == e.op = "check"
IsRecord(e) == e.op = "record"

\* The check_stabilisation calls made so far, and the records written.
Checks == SelectSeq(log, IsCheck)
Records == SelectSeq(log, IsRecord)

C14_OneCheckPerSetpoint ==
    /\ \A i \in 1..Len(Checks) : Checks[i].k = i /\ Checks[i].temp = sweep[i]
    /\ Len(Records) <= Len(Checks)
    /\ \A i \in 1..Len(Records) :
           /\ Records[i].k = i
           /\ Records[i].temp = sweep[i]
           /\ Checks[i].res = "True"
    /\ \A i \in 1..(Len(log) - 1) :
           IsCheck(log[i]) =>
               /\ log[i].res = "True"
               /\ IsRecord(log[i + 1])
               /\ log[i + 1].k = log[i].k
    /\ dpc = "loop" => (Len(Checks) = step /\ Len(Records) = step)
    /\ (log # <<>> /\ IsCheck(log[Len(log)])) =>
           CASE log[Len(log)].res = "True" -> dpc \in {"record", "unwind", "raised"}
             [] log[Len(log)].res = "False" ->
                    /\ dpc \in {"terminate", "exit", "done"}
                    /\ Len(Checks) = step
                    /\ Len(Records) = step - 1
             [] OTHER -> dpc \in {"unwind", "raised"}
    /\ (dpc = "done" /\ (log = <<>> \/ ~IsCheck(log[Len(log)]))) =>
           (Len(Checks) = Len(sweep) /\ Len(Records) = Len(sweep))

\* The second of three setpoints failed to stabilise: the method ended with
\* one record written and nothing asked after the failed call.
C14_Witness ==
    /\ dpc = "done"
    /\ Len(sweep) = 3
    /\ step = 2
    /\ Len(Checks) = 2
    /\ Len(Records) = 1
    /\ log[Len(log)].op = "check"
    /\ log[Len(log)].res = "False"

(***************************************************************************)
(* C15.  For points >= 2 the sweep is the ramp of `points' evenly spaced   *)
(* setpoints from start_temp to end_temp followed by its mirror image      *)
(* without the repeated peak: 2*points - 1 elements, element i equal to    *)
(* element 2*points - i (counting from 1), first and last the start        *)
(* temperature, element `points' the end temperature, ascending up to it   *)
(* when start_temp < end_temp.  The end temperature stands at no other     *)
(* index provided start_temp and end_temp differ.                          *)
(***************************************************************************)
SweepBuilt == dpc \notin {"none", "start"}

SweepShape ==
    /\ Len(sweep) = 2 * points - 1
    /\ \A i \in 1..Len(sweep) : sweep[i] = sweep[2 * points - i]
    /\ sweep[1] = start_temp * SweepDen
    /\ sweep[Len(sweep)] = start_temp * SweepDen
    /\ sweep[points] = end_temp * SweepDen
    /\ \A i \in 1..(points - 1) : sweep[i + 1] - sweep[i] = end_temp - start_temp

PeakOnce == \A i \in 1..Len(sweep) : sweep[i] = end_temp * SweepDen => i = points

C15_SweepIsMirroredRamp ==
    (SweepBuilt /\ points >= 2) =>
        /\ SweepShape
        /\ start_temp # end_temp => PeakOnce

\* The claim as stated: the end temperature occurs exactly once, whatever
\* start_temp and end_temp are.
C15_PeakExactlyOnce ==
    (SweepBuilt /\ points >= 2) => (SweepShape /\ PeakOnce)

\* The sweep from 0 K to 2 K in 3 points: 0, 1, 2, 1, 0 (in halves of a kelvin).
C15_Witness ==
    /\ SweepBuilt
    /\ points = 3
    /\ start_temp = 0
    /\ end_temp = 2
    /\ sweep = <<0, 2, 4, 2, 0>>

(***************************************************************************)
(* C21.  Once the constructor's write is over, whether it succeeded or     *)
(* failed, an Engine exists with an empty cycles_history; when the write   *)
(* succeeded the file is the snapshot of the given setpoint with an empty  *)
(* cycles_history.  Stated of the v2 and the history variant.  (__init__   *)
(* of v2 calls _write_json_atomic outside any try.)                        *)
(***************************************************************************)
C21_ConstructionSurvivesWriteFailure ==
    (variant \in {"v2", "history"} /\ ret = "ctor" /\ ~Writing) =>
        /\ pc # "ctor_raised"
        /\ cycles_history = <<>>
        /\ last_write = "ok" => file = Snapshot(arg, <<>>)

(***************************************************************************)
(* C22.  In every iteration of the sweep the device is commanded to the    *)
(* setpoint before the Engine's setpoint is updated: every set_setpoint    *)
(* call of the driver comes after a "SETP 1,<temp>" write of the same      *)
(* iteration and the same temperature.  (The code calls                    *)
(* stabilizer.set_setpoint first.)                                         *)
(***************************************************************************)
C22_DeviceCommandedBeforeEngine ==
    \A i \in 1..Len(log) :
        log[i].op = "set_setpoint" =>
            \E j \in 1..(i - 1) :
                /\ log[j].op = "SETP"
                /\ log[j].k = log[i].k
                /\ log[j].temp = log[i].temp

(***************************************************************************)
(* C23.  In the driver composed with its Engine, device requests and       *)
(* saves never overlap: from the start to the return of a                  *)
(* check_stabilisation call the driver stays at the call statement, while  *)
(* a save is in progress the driver does not move, a device request of     *)
(* the driver (the SETP write, the record queries) is issued only when     *)
(* the Engine is neither in a call nor saving and leaves the Engine's      *)
(* state and the file as they are, a read of the Engine is a step of the   *)
(* Engine alone, and the file and its temporary are changed by the         *)
(* Engine's write steps only.                                              *)
(***************************************************************************)
\* The driver executes a statement that talks to the device.
DriverRequest == dpc \in {"command", "record"} /\ dpc' # dpc

C23_OneRequestOneSaveAtATime ==
    /\ [](InCall => dpc = "check")
    /\ [](Writing => dpc \in {"command", "check"})
    /\ [][(InCall \/ Writing) => (dpc' = dpc /\ log' = log)]_vars
    /\ [][DriverRequest =>
            (~InCall /\ ~Writing /\ UNCHANGED <<memory, control, disk, reads, saves>>)]_vars
    /\ [][reads' > reads => (pc = "measure" /\ UNCHANGED sweepvars)]_vars
    /\ [][saves' > saves => (pc \in {"measure", "regress"} /\ UNCHANGED sweepvars)]_vars
    /\ [][(file' # file \/ tmp' # tmp) => (Writing /\ UNCHANGED sweepvars)]_vars

\* The driver wrote the record of its first setpoint after a call that made
\* two reads and three saves, and is back at the head of its loop.
C23_Witness ==
    /\ dpc = "loop"
    /\ step = 1
    /\ Len(Records) = 1
    /\ result = "True"
    /\ reads = 2
    /\ saves = 3

(***************************************************************************)
(* C24.  Reads are paced.  A device read is issued either as the first     *)
(* read of a cycle or right after a time.sleep(sampling_time); every       *)
(* sample read is saved and then slept on before anything else happens;    *)
(* the fit follows the sleep after the cycle's last sample; and a cycle    *)
(* other than the first of a call starts only after the retry sleep that   *)
(* follows the evaluation of the cycle before it.                          *)
(***************************************************************************)
C24_ReadsArePaced ==
    /\ [][(pc' = "measure" /\ pc # "measure") =>
            (pc = "sleep" \/ (pc = "loop" /\ idx' = 0))]_vars
    /\ [][(pc = "measure" /\ pc' # "measure") =>
            (pc' = "idle" \/ (pc' = "write_open" /\ ret' = "sample"))]_vars
    /\ [][(Writing /\ ret = "sample" /\ pc' \notin {"write_open", "write_commit"}) =>
            pc' = "sleep"]_vars
    /\ [][(pc' = "regress" /\ pc # "regress") => pc = "sleep"]_vars
    /\ [][(pc' = "test" /\ pc # "test") => (Writing /\ ret = "cycle")]_vars
    /\ [][(pc' = "retry_sleep" /\ pc # "retry_sleep") => pc = "test"]_vars
    /\ [][(pc' = "loop" /\ pc # "loop") =>
            (pc = "retry_sleep" \/ (pc = "idle" /\ reads' = 0))]_vars

\* The first read of a second cycle is about to be issued: the two reads of
\* the first cycle, its evaluation and the retry sleep lie behind.
C24_Witness ==
    /\ pc = "measure"
    /\ idx = 0
    /\ cycle_count = 2
    /\ nb_points = 2
    /\ reads = 2
    /\ appended = 1

(***************************************************************************)
(* C25.  The file mirrors the Engine.  Whenever control is outside the     *)
(* Engine and its last save succeeded, the file is the snapshot of the     *)
(* setpoint and cycles_history in memory (the tolerances never change);    *)
(* and every step that changes the setpoint or cycles_history leads        *)
(* directly into a save, before any device read or return.                 *)
(***************************************************************************)
C25_FileMirrorsMemory ==
    /\ [](((pc \in {"idle", "closed"}) /\ last_write = "ok") =>
            file = Snapshot(setpoint, cycles_history))
    /\ [][(setpoint' # setpoint \/ cycles_history' # cycles_history) =>
            (pc' = "write_open" /\ ret' \in {"set_setpoint", "cycle"})]_vars

\* A call of the atomic variant returned True on its second cycle and the
\* file holds both cycles.
C25_Witness ==
    /\ variant = "atomic"
    /\ pc = "idle"
    /\ result = "True"
    /\ last_write = "ok"
    /\ Len(cycles_history) = 2
    /\ file = Snapshot(setpoint, cycles_history)

(***************************************************************************)
(* C26.  With nb_points >= 2, whenever _perform_regression is about to     *)
(* run, the vector it hands to polyfit holds at least 2 samples, all       *)
(* finite.  (The loop counts non-finite readings as samples; the atomic    *)
(* variants drop them just before the fit, the history variant fits them.) *)
(***************************************************************************)
\* The vector polyfit receives: arr[mask] in the atomic variants,
\* current_measurements as it is in the history variant.
FitInput(v, samples) ==
    IF v = "history" THEN samples ELSE FiniteOnly(samples)

C26_FitOnTwoFiniteSamples ==
    (pc = "regress" /\ nb_points >= 2) =>
        /\ Len(FitInput(variant, current_measurements)) >= 2
        /\ AllFinite(FitInput(variant, current_measurements))

(***************************************************************************)
(* C27.  A recorded cycle holds as its measurements the samples its line   *)
(* was fitted on: every cycle in cycles_history whose fit succeeded holds  *)
(* only finite values, namely the vector handed to polyfit, and at most    *)
(* nb_points of them.  (The code stores current_measurements.copy(), the   *)
(* unfiltered buffer.)                                                     *)
(***************************************************************************)
C27_StoredSamplesAreFittedSamples ==
    \A k \in 1..Len(cycles_history) :
        cycles_history[k].slope_A[1] = "ok" =>
            /\ AllFinite(cycles_history[k].measurements)
            /\ cycles_history[k].measurements =
                   FitInput(variant, cycles_history[k].measurements)
            /\ Len(cycles_history[k].measurements) <= nb_points

(***************************************************************************)
(* C28.  No Engine exists with an invalid configuration: with a            *)
(* non-positive nb_points or sampling_time, a negative tolerance or a      *)
(* max_cycles below 1 the constructor does not get beyond its own          *)
(* statements, so no method of such an object ever runs.  (The code        *)
(* stores the values unchecked.)                                           *)
(***************************************************************************)
InvalidConfig ==
    \/ nb_points <= 0
    \/ sampling_time <= 0
    \/ tolerance_A < 0
    \/ tolerance_B < 0
    \/ (max_cycles # None /\ max_cycles < 1)

C28_ConfigValidatedAtConstruction ==
    InvalidConfig =>
        /\ pc \in {"init", "write_open", "write_commit", "ctor_raised"}
        /\ ret \in {"none", "ctor"}

(***************************************************************************)
(* C29.  However the body of the caller's `with' block ended, once         *)
(* __exit__ is through close() has been called exactly once on the         *)
(* temperature controller and exactly once on the lock-in, the controller  *)
(* first; a close() that raised did not keep the other from being tried;   *)
(* and neither handle is closed by this class before the body has ended.   *)
(***************************************************************************)
\* How the body ended: a full sweep, the break on a failed stabilisation,
\* or an exception.
BodyEnd ==
    IF dpc = "raised" THEN "exception"
    ELSE IF log # <<>> /\ log[Len(log)].op = "check" THEN "aborted"
    ELSE "completed"

C29_BothHandlesClosedOnEveryExit ==
    /\ closes["Lakeshore"] <= 1
    /\ closes["Lock-in"] <= closes["Lakeshore"]
    /\ spc = "body" => (closes = NoCloses /\ handle = "open" /\ lockin = "open")
    /\ spc # "body" => dpc \in {"done", "raised"}
    /\ spc = "close_lockin" => closes["Lakeshore"] = 1
    /\ spc = "left" => (closes["Lakeshore"] = 1 /\ closes["Lock-in"] = 1)
    /\ lockin = "closed" => closes["Lock-in"] = 1

\* The sweep was aborted on a failed stabilisation, closing the temperature
\* controller raised, and the lock-in was closed all the same.
C29_Witness ==
    /\ spc = "left"
    /\ BodyEnd = "aborted"
    /\ handle = "open"
    /\ lockin = "closed"
    /\ closes["Lakeshore"] = 1
    /\ closes["Lock-in"] = 1

(***************************************************************************)
(* C30.  The data file starts with the header.  On a path that held no     *)
(* file before the first logging call, after any sequence of               *)
(* go_to_temperature and stabilization_measurement calls line 1 is the     *)
(* header, every later line is one record and every line is terminated.    *)
(* A file found at the path gets no header: it never holds more header     *)
(* lines than it did.  No call removes or changes a complete line of the   *)
(* file.                                                                   *)
(***************************************************************************)
Headers(d) == Len(SelectSeq(d.lines, IsHeader))

C30_HeaderIsFirstLine ==
    /\ [](data.born = "missing" => (data.lines = <<>> /\ dpc \in {"start", "go_start"}))
    /\ [](data.born = "created" =>
            /\ Len(data.lines) >= 1
            /\ data.lines[1] = "header"
            /\ \A i \in 2..Len(data.lines) : data.lines[i] = "record"
            /\ ~data.open_tail)
    /\ [](data.born = "preexisting" => Headers(data) <= data.headers0)
    /\ [][(data.born # "missing" /\ ~data.open_tail) =>
            IsPrefix(data.lines, data'.lines)]_vars

\* go_to_temperature is logging into a file that a call before it created:
\* the header and two records.
C30_Witness ==
    /\ dpc = "go_loop"
    /\ log = <<>>
    /\ data.born = "created"
    /\ data.lines = <<"header", "record", "record">>

(***************************************************************************)
(* C31.  go_to_temperature returns only when sensor B is within            *)
(* control_tol of the target and sensor A is within sample_tol of it.      *)
(* (The code compares sensor B only.)                                      *)
(***************************************************************************)
C31_ReturnsWithinBothTolerances ==
    (dpc = "done" /\ count > 0) =>
        /\ WithinTol(krdg.B, target_temp, control_tol)
        /\ WithinTol(krdg.A, target_temp, sample_tol)

(***************************************************************************)
(* C32.  In the legacy class self.measurements is cumulative: no step      *)
(* removes or changes an element, and it grows by exactly one element at   *)
(* each device read that yields a number and at no other step (neither a   *)
(* new cycle, nor a new call, nor set_setpoint shortens it); every fit     *)
(* recorded is the fit of the whole list; slopes_history and               *)
(* intercepts_history have the same length at all times, the number of     *)
(* cycles recorded since the constructor or the last set_setpoint.         *)
(***************************************************************************)
C32_MeasurementsCumulative ==
    /\ [](/\ Len(slopes_history) = Len(intercepts_history)
          /\ Len(slopes_history) = appended)
    /\ [][/\ IsPrefix(measurements, measurements')
          /\ Len(measurements') =
                 Len(measurements)
                     + (IF reads' = reads + 1 /\ last_reply'.kind \in {"num", "nonfinite"}
                        THEN 1 ELSE 0)
          /\ Len(slopes_history') > Len(slopes_history) =>
                 \E fit \in polyfit(measurements) :
                     /\ slopes_history' =
                            Append(slopes_history, <<fit.kind, fit.A, fit.den>>)
                     /\ intercepts_history' =
                            Append(intercepts_history, <<fit.kind, fit.B, fit.den>>)]_vars

\* After a first call and a set_setpoint, a second call of two samples per
\* cycle returned True on its first cycle: four samples are held, and the one
\* fit recorded since set_setpoint is the line through all four.
C32_Witness ==
    /\ variant = "legacy"
    /\ pc = "idle"
    /\ result = "True"
    /\ ret = "cycle"
    /\ nb_points = 2
    /\ reads = 2
    /\ Len(measurements) = 4
    /\ AllFinite(measurements)
    /\ Len(slopes_history) = 1
    /\ LegacyLastFit = LeastSquares(measurements)

(***************************************************************************)
(* C33.  When check_stabilisation has returned True, the last entry of     *)
(* cycles_history is within both tolerances of the current setpoint and    *)
(* every other entry appended during that call is not; when it has         *)
(* returned False, no entry appended during that call is.                  *)
(***************************************************************************)
C33_StableEntryIsTheLastOne ==
    /\ (Returned /\ result = "True") =>
           /\ Len(cycles_history) > len0
           /\ SlopeWithin(LastCycle) /\ InterceptWithin(LastCycle)
           /\ \A k \in (len0 + 1)..(Len(cycles_history) - 1) :
                  ~(SlopeWithin(cycles_history[k]) /\ InterceptWithin(cycles_history[k]))
    /\ (Returned /\ result = "False") =>
           \A k \in (len0 + 1)..Len(cycles_history) :
               ~(SlopeWithin(cycles_history[k]) /\ InterceptWithin(cycles_history[k]))

\* A call returned True on its second cycle; its first cycle had a flat line
\* off the setpoint.
C33_Witness ==
    /\ Returned
    /\ result = "True"
    /\ len0 = 0
    /\ Len(cycles_history) = 2
    /\ SlopeWithin(cycles_history[1])
    /\ ~InterceptWithin(cycles_history[1])
    /\ SlopeWithin(cycles_history[2])
    /\ InterceptWithin(cycles_history[2])

(***************************************************************************)
(* C34.  The file never holds the samples of the cycle in progress: every  *)
(* cycle in it is a closed one of nb_points samples, and what a save       *)
(* during collection writes is the setpoint and the closed cycles only.    *)
(* Between the samples of a cycle (before each read and after each         *)
(* per-sample save) the file is what the save before the cycle left: the   *)
(* snapshot of the setpoint and of the closed cycles, none of which is     *)
(* the buffer being filled; the per-sample saves leave the file as they    *)
(* found it.                                                               *)
(***************************************************************************)
C34_FileHoldsClosedCyclesOnly ==
    /\ [](file.kind = "complete" =>
              \A k \in 1..Len(file.cycles_history) :
                  Len(file.cycles_history[k].measurements) = nb_points)
    /\ []((pc \in {"measure", "sleep"} /\ last_write = "ok") =>
              file = Snapshot(setpoint, cycles_history))
    /\ [][(ret' = "sample" /\ pc' = "sleep" /\ last_write' = "ok") =>
              /\ file' = Snapshot(setpoint, cycles_history)
              /\ UNCHANGED <<setpoint, cycles_history>>]_vars

\* The first of the two samples of a second cycle has been saved: the file
\* holds the first cycle and nothing of the second.
C34_Witness ==
    /\ variant = "atomic"
    /\ pc = "sleep"
    /\ nb_points = 2
    /\ idx = 0
    /\ Len(current_measurements) = 1
    /\ Len(cycles_history) = 1
    /\ last_write = "ok"
    /\ file = Snapshot(setpoint, cycles_history)

(***************************************************************************)
(* C35.  The plotter's polling step completes without an error on every    *)
(* snapshot the Engine persists, the one with an empty cycles_history      *)
(* included.  (The step indexes cycles_history[-1].)                       *)
(***************************************************************************)
C35_PlotterRendersEverySnapshot ==
    obs \in {"missing", "ok", "FileNotFoundError", "JSONDecodeError"}

(***************************************************************************)
(* C36.  When stabilization_measurement is left, on any path (sweep        *)
(* completed, sweep aborted on a failed stabilisation, exception inside    *)
(* the loop), the plotter subprocesses it started have been terminated.    *)
(* (terminate() is called after the loop only.)                            *)
(***************************************************************************)
C36_PlottersTerminatedOnEveryExit ==
    (dpc \in {"done", "raised"} /\ plots # "none") => plots = "terminated"

(***************************************************************************)
(* C37.  A call of set_setpoint(x), from its first statement to its        *)
(* return, leaves tolerance_A, tolerance_B, nb_points, sampling_time,      *)
(* max_cycles, the sample buffer and the device handle as they were and    *)
(* sends nothing to the device; its first step sets the setpoint to x,     *)
(* empties cycles_history and starts a write of the file, whatever the     *)
(* old setpoint and history were.                                          *)
(***************************************************************************)
SetSetpointCalled == pc = "idle" /\ pc' \notin {"loop", "closed"} /\ obs' = obs

InSetSetpoint == Writing /\ ret = "set_setpoint"

C37_SetSetpointFrame ==
    /\ [][(SetSetpointCalled \/ InSetSetpoint) =>
              /\ UNCHANGED <<tolerance_A, tolerance_B, nb_points, sampling_time,
                             max_cycles, current_measurements, handle>>
              /\ sent' = {}
              /\ reads' = 0]_vars
    /\ [][SetSetpointCalled =>
              /\ setpoint' = arg'
              /\ cycles_history' = <<>>
              /\ pc' = "write_open"
              /\ ret' = "set_setpoint"
              /\ file' = file]_vars
    /\ [][InSetSetpoint => UNCHANGED <<setpoint, cycles_history>>]_vars

\* set_setpoint has been called with the setpoint the Engine already had and
\* an empty history, both already on disk: it starts its write all the same.
C37_Witness ==
    /\ pc = "write_open"
    /\ ret = "set_setpoint"
    /\ last_write = "ok"
    /\ file = Snapshot(setpoint, <<>>)
    /\ Len(current_measurements) = 2

(***************************************************************************)
(* C38.  From the call of check_stabilisation to its return, with any      *)
(* outcome, the setpoint, both tolerances, nb_points, sampling_time,       *)
(* max_cycles and the device handle are unchanged, and the only request    *)
(* sent to the device is the read query "KRDG? B": never a setpoint or a   *)
(* ramp command.                                                           *)
(***************************************************************************)
C38_CheckStabilisationFrame ==
    /\ [][(InCall \/ (pc = "idle" /\ pc' = "loop")) =>
              UNCHANGED <<setpoint, tolerance_A, tolerance_B, nb_points, sampling_time,
                          max_cycles, handle>>]_vars
    /\ [](sent \subseteq {"KRDG? B"})
    /\ []((InCall \/ Returned) => (sent = {} <=> reads = 0))

\* A call ended with False on a communication error at its third read.
C38_Witness ==
    /\ Returned
    /\ result = "False"
    /\ cause = "VisaIOError"
    /\ reads = 3
    /\ sent = {"KRDG? B"}
    /\ setpoint = arg

(***************************************************************************)
(* C39.  A call of check_stabilisation that returned False either met a    *)
(* device communication error (its last query raised VisaIOError) or has   *)
(* max_cycles set and completed exactly max_cycles cycles, none of them    *)
(* within both tolerances; with max_cycles unset only the first is         *)
(* possible.  A call that ends on its budget returns False: it does not    *)
(* raise.                                                                  *)
(***************************************************************************)
C39_FalseOnlyOnErrorOrBudget ==
    /\ (Returned /\ result = "False") =>
           \/ last_reply.kind = "VisaIOError"
           \/ /\ max_cycles # None
              /\ last_reply.kind # "VisaIOError"
              /\ appended = max_cycles
              /\ cycle_count = max_cycles + 1
              /\ \A k \in (len0 + 1)..Len(cycles_history) :
                     ~(SlopeWithin(cycles_history[k]) /\ InterceptWithin(cycles_history[k]))
    /\ (Returned /\ cause = "budget") => result = "False"
    /\ (Returned /\ result = "raise") =>
           cause \in {"ValueError", "TypeError", "LinAlgError"}

\* With max_cycles = 1, a call returned False after its one cycle, which was
\* flat but off the setpoint; no communication error occurred.
C39_Witness ==
    /\ Returned
    /\ result = "False"
    /\ max_cycles = 1
    /\ appended = 1
    /\ reads = nb_points
    /\ last_reply.kind = "num"
    /\ SlopeWithin(LastCycle)
    /\ ~InterceptWithin(LastCycle)

=============================================================================
